---------------------------- MODULE Spec2Model ----------------------------
(***************************************************************************)
(* Model of the flower shop bot (Djju69/FLOWER_BOT).                       *)
(*                                                                         *)
(*   Spec        the chat handlers, one action per handler, dispatched in  *)
(*               registration order (user, catalog, orders, admin router)  *)
(*   SpecDb      the storage layer's write operations run by concurrent    *)
(*               callers, one action per await point                       *)
(*   SpecNotify  notify_admins applied to bounded inputs                   *)
(*                                                                         *)
(* Texts are sequences of one-character strings, so that strip(), len()    *)
(* and the phone patterns are computed as the code computes them.  The     *)
(* literals of the source that are not ASCII are written as ASCII tokens   *)
(* (the token is given next to its definition).                            *)
(***************************************************************************)
EXTENDS Integers, Sequences, FiniteSets, TLC

(***************************************************************************)
(* Bounds of the model                                                     *)
(***************************************************************************)
MaxOrders == 1          \* orders the bot may add to those it started with
MaxDay == 0             \* the clock runs over days 0..MaxDay
NCallers == 3           \* concurrent callers of the storage layer (SpecDb)
MaxAdmins == 3          \* longest admin_ids list given to notify_admins

(***************************************************************************)
(* Program constants                                                       *)
(***************************************************************************)
CutoffHour == 18        \* helpers.py: time(hour=18, minute=0)
GridDays == 14          \* inline.py: for i in range(14)
GridRow == 7            \* inline.py: days[i : i + 7]
MinAddressLen == 10     \* orders.py: len(message.text.strip()) < 10
CardTextMax == 200      \* helpers.py: text.strip()[:200]

STATUS_NEW == "NEW"              \* "(yellow circle) Novyj", the schema default
STATUS_IN_WORK == "IN_WORK"      \* "(blue circle) V rabote"
STATUS_DONE == "DONE"            \* "(green circle) Zavershen"
STATUS_CANCELLED == "CANCELLED"  \* "(cross) Otmenen"

NOTICE_CANCELLED == "Zakaz otmenen"          \* message.answer of cancel_order
NOTICE_RIGHTS == "Nedostatochno prav"        \* cb.answer(..., show_alert=True)
NOTICE_NO_PRODUCT == "Tovar ne najden"
NOTICE_NO_ORDER == "Zakaz ne najden"
NOTICE_STATUS == "Status obnovlen"
NOTICE_NO_COMPLETED == "U vas poka net zavershennyh zakazov dlya povtora"

None == <<"<None>">>    \* Python's None where a text may stand (Optional[str])

(***************************************************************************)
(* Texts                                                                   *)
(***************************************************************************)
Digits == {"0", "1", "2", "3", "4", "5", "6", "7", "8", "9"}
Whitespace == {" ", "\t", "\n"}

RECURSIVE lstrip(_)
lstrip(t) == IF t # <<>> /\ Head(t) \in Whitespace THEN lstrip(Tail(t)) ELSE t

RECURSIVE rstrip(_)
rstrip(t) ==
    IF t # <<>> /\ t[Len(t)] \in Whitespace THEN rstrip(SubSeq(t, 1, Len(t) - 1)) ELSE t

strip(t) == rstrip(lstrip(t))

StartsWith(t, p) == Len(t) >= Len(p) /\ SubSeq(t, 1, Len(p)) = p

\* aiogram's Command filter: the first word of the text is the command.
IsCommand(t, c) ==
    /\ StartsWith(t, c)
    /\ Len(t) = Len(c) \/ t[Len(c) + 1] \in Whitespace

\* re.match of one pattern: "d" is \d, "s?" is \s?, anything else a literal;
\* the end of the pattern is "$".
RECURSIVE MatchFrom(_, _, _, _)
MatchFrom(t, i, pat, j) ==
    IF j > Len(pat) THEN i > Len(t)
    ELSE IF pat[j] = "d"
         THEN i <= Len(t) /\ t[i] \in Digits /\ MatchFrom(t, i + 1, pat, j + 1)
    ELSE IF pat[j] = "s?"
         THEN \/ i <= Len(t) /\ t[i] \in Whitespace /\ MatchFrom(t, i + 1, pat, j + 1)
              \/ MatchFrom(t, i, pat, j + 1)
    ELSE i <= Len(t) /\ t[i] = pat[j] /\ MatchFrom(t, i + 1, pat, j + 1)

PatternGrouped ==
    <<"+", "d", "d", "s?", "d", "d", "d", "s?", "d", "d", "d", "s?", "d", "d", "d", "d">>
PatternLocal == <<"0", "d", "d", "d", "d", "d", "d", "d", "d", "d">>

\* The validation with the third pattern left open at its end
is_phone_valid_open(phone0) ==
    LET phone == strip(phone0)
    IN  \/ MatchFrom(phone, 1, PatternGrouped, 1)
        \/ MatchFrom(phone, 1, PatternLocal, 1)
        \/ /\ Len(phone) >= 10
           /\ phone[1] = "+"
           /\ \A i \in 2..Len(phone) : phone[i] \in Digits

is_phone_valid(phone0) ==
    LET phone == strip(phone0)
    IN  \/ MatchFrom(phone, 1, PatternGrouped, 1)
        \/ MatchFrom(phone, 1, PatternLocal, 1)
        \/ /\ Len(phone) \in 10..16
           /\ phone[1] = "+"
           /\ \A i \in 2..Len(phone) : phone[i] \in Digits

\* text[:200].strip(): the cut taken before the trimming
cut_then_strip(text) ==
    strip(SubSeq(text, 1, IF Len(text) < CardTextMax THEN Len(text) ELSE CardTextMax))

normalize_card_text(text) ==
    LET s == strip(text)
    IN  SubSeq(s, 1, IF Len(s) < CardTextMax THEN Len(s) ELSE CardTextMax)

(***************************************************************************)
(* Clock and dates.  A date is its day number; isoformat gives the string  *)
(* stored in the conversation data and in the orders table.                *)
(***************************************************************************)
LastDate == MaxDay + GridDays
isoformat(d) == "D" \o ToString(d)
fromisoformat(s) == CHOOSE d \in 0..LastDate : isoformat(d) = s

is_after_six_pm(now) == now.hour >= CutoffHour


(***************************************************************************)
(* Keyboards: the rows of a markup, each button given by its callback data *)
(* split at ":" (inline) or by what pressing it sends (reply keyboards).   *)
(***************************************************************************)
order_date_kb(include_today, today) ==
    LET row == (IF include_today THEN << <<"date_selected", "today">> >> ELSE <<>>)
                   \o << <<"date_selected", "tomorrow">> >>
        days == [i \in 1..GridDays |-> <<"date_selected", isoformat(today + (i - 1))>>]
        grid == [r \in 1..((GridDays + GridRow - 1) \div GridRow) |->
                    SubSeq(days, (r - 1) * GridRow + 1,
                           IF r * GridRow < GridDays THEN r * GridRow ELSE GridDays)]
    IN  <<row>> \o grid \o << << <<"order_cancel">> >> >>

TimeSlots == <<"09:00-12:00", "12:00-15:00", "15:00-18:00", "18:00-21:00">>

order_time_kb ==
    [i \in 1..Len(TimeSlots) |-> << <<"time_selected", TimeSlots[i]>> >>]
        \o << << <<"back_to_date">> >>, << <<"order_cancel">> >> >>

card_text_kb == << << <<"card_write">> >>, << <<"card_skip">> >>, << <<"card_back">> >> >>

create_confirmation_kb ==
    << << <<"order_confirm">> >>, << <<"order_edit">> >>, << <<"order_cancel">> >> >>

phone_request_kb == << << <<"request_contact">> >> >>

location_request_kb == << << <<"request_location">> >> >>

main_menu_kb ==
    << << <<"text", "shop">>, <<"text", "orders">> >>,
       << <<"text", "repeat">>, <<"text", "support">> >> >>

NoMarkup == <<>>

\* The buttons of a markup, whatever their row.
Buttons(markup) == UNION {{markup[r][c] : c \in DOMAIN markup[r]} : r \in DOMAIN markup}

(***************************************************************************)
(* Storage layer.  A database is a record of its four tables, each a       *)
(* function from the ids of its rows to the rows, and of the AUTOINCREMENT *)
(* counters (sqlite_sequence).  Every statement gives the database after   *)
(* it, whether it raised (a constraint failed: the statement changed       *)
(* nothing) and cursor.lastrowid.  Foreign keys are enforced (connect).    *)
(***************************************************************************)
DefaultCategories ==
    <<"Rozy", "Sezonnye", "V korobke", "Svadebnye", "Mini", "Individualnyj zakaz">>

EmptyTable == [i \in {} |-> 0]

Put(table, id, row) == [i \in (DOMAIN table) \cup {id} |-> IF i = id THEN row ELSE table[i]]

Drop(table, ids) == [i \in (DOMAIN table) \ ids |-> table[i]]

Done(db1, rowid) == [db |-> db1, raised |-> FALSE, lastrowid |-> rowid]

Raised(db0) == [db |-> db0, raised |-> TRUE, lastrowid |-> 0]

\* add_category without OR IGNORE and without the UNIQUE constraint
add_category_again(db, name) ==
    LET id == db.seq.categories + 1
    IN  Done([db EXCEPT !.categories = Put(@, id, [id |-> id, name |-> name]),
                       !.seq.categories = id], id)

\* INSERT OR IGNORE INTO categories (name): a duplicate name inserts nothing.
add_category(db, name) ==
    IF \E c \in DOMAIN db.categories : db.categories[c].name = name
    THEN Done(db, 0)
    ELSE LET id == db.seq.categories + 1
         IN  Done([db EXCEPT !.categories = Put(@, id, [id |-> id, name |-> name]),
                             !.seq.categories = id], id)

\* UPDATE categories SET name = ? WHERE id = ?  (name is UNIQUE)
rename_category(db, category_id, new_name) ==
    IF category_id \notin DOMAIN db.categories THEN Done(db, 0)
    ELSE IF \E c \in DOMAIN db.categories :
                c # category_id /\ db.categories[c].name = new_name
         THEN Raised(db)
    ELSE Done([db EXCEPT !.categories[category_id].name = new_name], 0)

\* DELETE FROM categories WHERE id = ?  (products: ON DELETE CASCADE;
\* orders.product_id REFERENCES products(id) without an action)
delete_category(db, category_id) ==
    LET gone == {p \in DOMAIN db.products : db.products[p].category_id = category_id}
    IN  IF category_id \notin DOMAIN db.categories THEN Done(db, 0)
        ELSE IF \E o \in DOMAIN db.orders : db.orders[o].product_id \in gone
             THEN Raised(db)
        ELSE Done([db EXCEPT !.categories = Drop(@, {category_id}),
                             !.products = Drop(@, gone)], 0)

\* INSERT INTO products (...)
add_product(db, category_id, name, price, price_from, description, photo_file_id) ==
    IF category_id \notin DOMAIN db.categories THEN Raised(db)
    ELSE LET id == db.seq.products + 1
             row == [id |-> id, category_id |-> category_id, name |-> name,
                     price |-> price, price_from |-> price_from,
                     description |-> description, photo_file_id |-> photo_file_id,
                     is_active |-> TRUE]
         IN  Done([db EXCEPT !.products = Put(@, id, row), !.seq.products = id], id)

\* UPDATE products SET <columns of fields> WHERE id = ?
update_product(db, product_id, fields) ==
    IF product_id \notin DOMAIN db.products THEN Done(db, 0)
    ELSE IF "category_id" \in DOMAIN fields /\ fields.category_id \notin DOMAIN db.categories
         THEN Raised(db)
    ELSE LET old == db.products[product_id]
             row == [k \in DOMAIN old |-> IF k \in DOMAIN fields THEN fields[k] ELSE old[k]]
         IN  Done([db EXCEPT !.products[product_id] = row], 0)

\* DELETE FROM products WHERE id = ?
delete_product(db, product_id) ==
    IF product_id \notin DOMAIN db.products THEN Done(db, 0)
    ELSE IF \E o \in DOMAIN db.orders : db.orders[o].product_id = product_id
         THEN Raised(db)
    ELSE Done([db EXCEPT !.products = Drop(@, {product_id})], 0)

\* get_product answering from the rows it has seen, deleted or not
get_product_stale(db, product_id) ==
    <<[id |-> product_id, category_id |-> 1, name |-> <<"R", "o", "z", "y">>,
       price |-> 1800000, price_from |-> FALSE, description |-> <<"2", "5">>,
       photo_file_id |-> "photo-1", is_active |-> TRUE]>>

\* SELECT ... FROM products WHERE id = ?  (active or not)
get_product(db, product_id) ==
    IF product_id \in DOMAIN db.products THEN <<db.products[product_id]>> ELSE <<>>

\* INSERT INTO orders (...): `order` holds the ten columns the caller gives.
create_order(db, order) ==
    IF order.product_id \notin DOMAIN db.products THEN Raised(db)
    ELSE LET id == db.seq.orders + 1
             row == [k \in (DOMAIN order) \cup {"id"} |-> IF k = "id" THEN id ELSE order[k]]
         IN  Done([db EXCEPT !.orders = Put(@, id, row), !.seq.orders = id], id)

\* UPDATE orders SET status = ? WHERE id = ?
update_order_status(db, order_id, status) ==
    IF order_id \notin DOMAIN db.orders THEN Done(db, 0)
    ELSE Done([db EXCEPT !.orders[order_id].status = status], 0)

get_order(db, order_id) ==
    IF order_id \in DOMAIN db.orders THEN <<db.orders[order_id]>> ELSE <<>>

\* INSERT INTO support_messages (user_id, username, text)
save_support_message(db, user_id, username, text) ==
    LET id == db.seq.support_messages + 1
        row == [id |-> id, user_id |-> user_id, username |-> username, text |-> text]
    IN  Done([db EXCEPT !.support_messages = Put(@, id, row),
                        !.seq.support_messages = id], id)

\* The database after create_schema on a new file: the four tables, the
\* categories seeded with the six defaults.
RECURSIVE SeedCategories(_, _)
SeedCategories(db, i) ==
    IF i > Len(DefaultCategories) THEN db
    ELSE SeedCategories(add_category(db, DefaultCategories[i]).db, i + 1)

EmptyDb ==
    [categories |-> EmptyTable, products |-> EmptyTable, orders |-> EmptyTable,
     support_messages |-> EmptyTable,
     seq |-> [categories |-> 0, products |-> 0, orders |-> 0, support_messages |-> 0]]

create_schema == SeedCategories(EmptyDb, 1)

(***************************************************************************)
(* Configuration and the inputs the environment draws from                 *)
(***************************************************************************)
Users == {1, 2}                 \* external identities that write to the bot
admin_ids == <<1>>              \* Settings.admin_ids (ADMIN_IDS=1)
Shoppers == {2}                 \* the identities that go through the order dialogue

UsernameOf(u) == IF u = 1 THEN <<"a", "d", "m">> ELSE None   \* from_user.username

T_LONG == <<" ", "1", "2", " ", "M", "a", "i", "n", " ", "S", "t", ",", " ", "4", " ">>
T_SHORT == <<"H", "i", "!">>
T_PHONE == <<"0", "9", "1", "2", "3", "4", "5", "6", "7", "8">>
CMD_START == <<"/", "s", "t", "a", "r", "t">>
CMD_MENU == <<"/", "m", "e", "n", "u">>
CMD_ADMIN == <<"/", "a", "d", "m", "i", "n">>
LBL_SHOP == <<"M", "a", "g", "a", "z", "i", "n">>          \* "(bags) Magazin"
LBL_ORDERS == <<"Z", "a", "k", "a", "z", "y">>             \* "(box) Zakazy"
LBL_REPEAT == <<"P", "o", "v", "t", "o", "r", "i", "t">>   \* "(repeat) Povtorit zakaz"
LBL_SUPPORT == <<"P", "o", "d", "d", "e", "r", "z", "h", "k", "a">>  \* "(speech) Podderzhka"

Prices == {1800000, 2100000}    \* prices a product may be given
InitialPrice == CHOOSE p \in Prices : \A q \in Prices : p <= q

ProductIds == {1, 2}            \* ids carried by order_start: 1 exists, 2 does not
OrderIds == 1..(MaxOrders + 2)  \* ids carried by order callbacks: one is missing
DateValues == {"today", "tomorrow"} \cup {isoformat(d) : d \in 0..MaxDay}
SlotValues == {TimeSlots[2]}
Locations == {[latitude |-> <<"1", "2", ".", "2", "5">>, longitude |-> <<"1", "0", "9", ".", "2">>]}
AddressTexts == {T_LONG, T_SHORT}
CardTexts == {T_SHORT}
PhoneTexts == {T_PHONE, T_SHORT}
ContactPhones == {T_PHONE}       \* the contact shared is the number the user would type
Hours == {10, CutoffHour}       \* the instants of a day the clock stops at

(***************************************************************************)
(* Conversation states (aiogram FSM) and events                            *)
(***************************************************************************)
S_NONE == "None"
S_DATE == "OrderStates:waiting_for_delivery_date"
S_TIME == "OrderStates:waiting_for_delivery_time"
S_ADDRESS == "OrderStates:waiting_for_address"
S_CARD == "OrderStates:waiting_for_card_text"
S_PHONE == "OrderStates:waiting_for_phone"
S_CONFIRM == "OrderStates:waiting_for_confirmation"
S_SUPPORT == "SupportState:waiting_for_message"
A_PHOTO == "AdminAddProductStates:waiting_for_photo"
A_NAME == "AdminAddProductStates:waiting_for_name"
A_CATEGORY == "AdminAddProductStates:waiting_for_category"
A_PRICE == "AdminAddProductStates:waiting_for_price"
A_DESCRIPTION == "AdminAddProductStates:waiting_for_description"
A_CONFIRM == "AdminAddProductStates:waiting_for_confirmation"
C_ACTION == "AdminCategoryStates:waiting_for_action"
C_NAME == "AdminCategoryStates:waiting_for_name"

OrderStates == {S_DATE, S_TIME, S_ADDRESS, S_CARD, S_PHONE, S_CONFIRM}

Text(t) == [kind |-> "text", text |-> t]
Location(loc) == [kind |-> "location", location |-> loc]
Contact(phone) == [kind |-> "contact", phone_number |-> phone]
Callback(d) == [kind |-> "callback", data |-> d]

\* A dispatcher that asks the handlers of the current state before the
\* handlers registered for a label
RouteMessageByState(state, ev) ==
    LET isText == ev.kind = "text"
    IN  IF isText /\ IsCommand(ev.text, CMD_START) THEN "cmd_start"
        ELSE IF isText /\ IsCommand(ev.text, CMD_MENU) THEN "cmd_menu"
        ELSE IF state = S_SUPPORT THEN "receive_support_message"
        ELSE IF state = S_ADDRESS /\ ev.kind = "location" THEN "address_location"
        ELSE IF state = S_ADDRESS /\ isText THEN "address_text"
        ELSE IF state = S_CARD /\ isText THEN "card_text"
        ELSE IF state = S_PHONE /\ ev.kind = "contact" THEN "phone_contact"
        ELSE IF state = S_PHONE /\ isText THEN "phone_text"
        ELSE IF isText /\ ev.text = LBL_SUPPORT THEN "support_entry"
        ELSE IF isText /\ ev.text = LBL_SHOP THEN "show_categories"
        ELSE IF isText /\ ev.text = LBL_ORDERS THEN "show_orders"
        ELSE IF isText /\ ev.text = LBL_REPEAT THEN "repeat_order"
        ELSE "unhandled"

\* The handler a message is given to: the first whose filters match, in the
\* order user_router, catalog_router, orders_router, admin_router and, inside
\* a router, in the order of registration.
RouteMessage(state, ev) ==
    LET isText == ev.kind = "text"
    IN  IF isText /\ IsCommand(ev.text, CMD_START) THEN "cmd_start"
        ELSE IF isText /\ IsCommand(ev.text, CMD_MENU) THEN "cmd_menu"
        ELSE IF isText /\ ev.text = LBL_SUPPORT THEN "support_entry"
        ELSE IF state = S_SUPPORT THEN "receive_support_message"
        ELSE IF isText /\ ev.text = LBL_SHOP THEN "show_categories"
        ELSE IF isText /\ ev.text = LBL_ORDERS THEN "show_orders"
        ELSE IF isText /\ ev.text = LBL_REPEAT THEN "repeat_order"
        ELSE IF state = S_ADDRESS /\ ev.kind = "location" THEN "address_location"
        ELSE IF state = S_ADDRESS /\ isText THEN "address_text"
        ELSE IF state = S_CARD /\ isText THEN "card_text"
        ELSE IF state = S_PHONE /\ ev.kind = "contact" THEN "phone_contact"
        ELSE IF state = S_PHONE /\ isText THEN "phone_text"
        ELSE IF isText /\ IsCommand(ev.text, CMD_ADMIN) THEN "admin_entry"
        ELSE IF state = A_PHOTO /\ ev.kind = "photo" THEN "admin_add_photo"
        ELSE IF state = A_NAME /\ isText THEN "admin_add_name"
        ELSE IF state = A_PRICE /\ isText THEN "admin_add_price"
        ELSE IF state = A_DESCRIPTION /\ isText THEN "admin_add_description"
        ELSE IF state = C_NAME /\ isText THEN "admin_category_name"
        ELSE "unhandled"

\* The same for a callback query; d is cb.data split at ":".
RouteCallback(state, d) ==
    LET is(w) == Len(d) = 1 /\ d[1] = w
        starts(w) == d[1] = w /\ Len(d) > 1
        admin(w) == Len(d) = 2 /\ d[1] = "admin" /\ d[2] = w
    IN  IF is("delivery_info") THEN "delivery_info"
        ELSE IF is("payment_info") THEN "payment_info"
        ELSE IF is("working_hours") THEN "working_hours"
        ELSE IF is("contact_florist") THEN "contact_florist"
        ELSE IF is("main_menu") THEN "back_to_main_menu"
        ELSE IF is("back_to_categories") THEN "cb_back_to_categories"
        ELSE IF starts("category") THEN "open_category"
        ELSE IF starts("next_page") \/ starts("prev_page") THEN "paginate_products"
        ELSE IF starts("back_to_products") THEN "back_to_products"
        ELSE IF starts("product_view") THEN "product_view"
        ELSE IF starts("order_start") THEN "order_start"
        ELSE IF starts("order_details") THEN "order_details"
        ELSE IF starts("repeat_order") THEN "repeat_order_callback"
        ELSE IF state = S_DATE /\ starts("date_selected") THEN "date_selected"
        ELSE IF state = S_TIME /\ starts("time_selected") THEN "time_selected"
        ELSE IF state = S_TIME /\ is("back_to_date") THEN "back_to_date"
        ELSE IF is("order_cancel") THEN "cancel_order"
        ELSE IF state = S_CARD /\ is("card_write") THEN "card_write"
        ELSE IF state = S_CARD /\ is("card_skip") THEN "card_skip"
        ELSE IF state = S_CARD /\ is("card_back") THEN "card_back"
        ELSE IF state = S_CONFIRM /\ is("order_edit") THEN "order_edit"
        ELSE IF state = S_CONFIRM /\ is("order_confirm") THEN "order_confirm"
        ELSE IF starts("admin_order_accept") THEN "admin_order_accept"
        ELSE IF starts("admin_order_reject") THEN "admin_order_reject"
        ELSE IF admin("back") THEN "admin_back"
        ELSE IF admin("add_product") THEN "admin_add_product_start"
        ELSE IF state = A_CATEGORY /\ Len(d) = 3 /\ d[1] = "admin" /\ d[2] = "category"
             THEN "admin_add_category_selected"
        ELSE IF state = A_CONFIRM /\ admin("product_save") THEN "admin_save_product"
        ELSE IF state = A_CONFIRM /\ admin("cancel_add") THEN "admin_cancel_add"
        ELSE IF admin("categories") THEN "admin_categories"
        ELSE IF state = C_ACTION /\ admin("add_category") THEN "admin_add_category"
        ELSE "unhandled"

Route(state, ev) ==
    IF ev.kind = "callback" THEN RouteCallback(state, ev.data) ELSE RouteMessage(state, ev)

(***************************************************************************)
(* State                                                                   *)
(***************************************************************************)
VARIABLES
    now,        \* the local clock: [day, hour]
    db,         \* the database as the connection sees it
    fsm,        \* fsm[u]: the conversation state of user u (MemoryStorage)
    data,       \* data[u]: the conversation data of user u, a dict
    kb,         \* kb[u]: the reply_markup of the last message sent to u
    out,        \* the answer to the last event: [to, answer, sent, raised]
    pass,       \* pass[u]: what u supplied since u last entered S_DATE
    lock,       \* SpecDb: the caller holding Database._lock, or 0
    task,       \* SpecDb: task[c]: the write caller c runs and where it is
    durable,    \* SpecDb: the committed database; elsewhere the one the bot started with
    notify,     \* SpecNotify: the inputs of notify_admins and its result
    view        \* the listing the last catalog handler rendered, <<>> before any

vars == <<now, db, fsm, data, kb, out, pass, lock, task, durable, notify, view>>

EmptyData == [k \in {} |-> 0]

\* FSMContext.update_data: dict.update
update_data(d, upd) ==
    [k \in (DOMAIN d) \cup (DOMAIN upd) |-> IF k \in DOMAIN upd THEN upd[k] ELSE d[k]]

\* data.get(key) of show_summary and order_confirm
Has(d, key) == key \in DOMAIN d

Answer(u, text) == [to |-> u, answer |-> text, sent |-> <<>>, raised |-> FALSE]

\* A handler that raised: aiogram logs the error, the callback is not answered.
Crashed(u, sent) == [to |-> u, answer |-> "", sent |-> sent, raised |-> TRUE]

is_admin(user_id) == \E i \in DOMAIN admin_ids : admin_ids[i] = user_id

_ensure_admin(user_id) == \E i \in DOMAIN admin_ids : admin_ids[i] = user_id

(***************************************************************************)
(* notify_admins: one send_message per entry of admin_ids, in list order;  *)
(* `fails` holds the positions whose delivery raises.  The result is the   *)
(* deliveries attempted and whether an exception left the function.        *)
(***************************************************************************)
RECURSIVE notify_loop(_, _, _, _)
notify_loop(ids, fails, i, attempts) ==
    IF i > Len(ids) THEN [attempts |-> attempts, raised |-> FALSE]
    ELSE \* try: send_message  except Exception: continue
         notify_loop(ids, fails, i + 1, Append(attempts, [to |-> ids[i], ok |-> i \notin fails]))

\* The loop without try/except: the first failed delivery raises out of it
RECURSIVE unprotected_loop(_, _, _, _)
unprotected_loop(ids, fails, i, attempts) ==
    IF i > Len(ids) THEN [attempts |-> attempts, raised |-> FALSE]
    ELSE IF i \in fails
         THEN [attempts |-> Append(attempts, [to |-> ids[i], ok |-> FALSE]), raised |-> TRUE]
    ELSE unprotected_loop(ids, fails, i + 1, Append(attempts, [to |-> ids[i], ok |-> TRUE]))

notify_unprotected(ids, fails) == unprotected_loop(ids, fails, 1, <<>>)

notify_admins(ids, fails) == notify_loop(ids, fails, 1, <<>>)

\* send_message outside any try: a failed delivery raises in the handler
send_unprotected(user_id, ok) == [attempts |-> <<[to |-> user_id, ok |-> ok]>>, raised |-> ~ok]

\* try: await bot.send_message(user_id, ...)  except Exception: pass
try_send(user_id, ok) == [attempts |-> <<[to |-> user_id, ok |-> ok]>>, raised |-> FALSE]

(***************************************************************************)
(* Handlers.  Each action is one handler run on one event of user u; its   *)
(* first conjunct says that the dispatcher gives the event to it.          *)
(***************************************************************************)
Frame == UNCHANGED <<now, lock, task, durable, notify, view>>

\* `pass` is a history variable: how the user entered the dialogue (seed, and
\* for a repeated order the product of the order it repeats), the
\* inputs accepted since the dialogue last entered waiting_for_delivery_date,
\* once order_confirm has run the id of its row and the price the summary
\* quoted, and once cancel_order has run the state it was taken in.
Reenter(p) == [k \in (DOMAIN p) \cap {"seed", "repeated"} |-> p[k]]

\* A storage that keeps one record for all users
SetShared(f, u, v) == [w \in DOMAIN f |-> v]

\* MemoryStorage: the record of a user is kept under the user's key
Set(f, u, v) == [f EXCEPT ![u] = v]

\* user.py: /start
cmd_start(u) ==
    /\ Route(fsm[u], Text(CMD_START)) = "cmd_start"
    /\ fsm' = Set(fsm, u, S_NONE)
    /\ data' = Set(data, u, EmptyData)
    /\ pass' = Set(pass, u, EmptyData)
    /\ kb' = Set(kb, u, main_menu_kb)
    /\ out' = Answer(u, "")
    /\ UNCHANGED db /\ Frame

\* catalog.py: "order_start:<product>:<category>:<page>"
order_start(u, product_id, category_id, page) ==
    /\ Route(fsm[u], Callback(<<"order_start", product_id, category_id, page>>)) = "order_start"
    /\ LET product == get_product(db, product_id)
       IN  IF product = <<>>
           THEN /\ out' = Answer(u, NOTICE_NO_PRODUCT)
                /\ UNCHANGED <<fsm, data, kb, pass>>
           ELSE /\ data' = Set(data, u, update_data(data[u],
                               [product_id |-> product_id,
                                product_price |-> product[1].price,
                                product_name |-> product[1].name,
                                category_id |-> category_id,
                                category_page |-> page]))
                /\ kb' = Set(kb, u, order_date_kb(~is_after_six_pm(now), now.day))
                /\ fsm' = Set(fsm, u, S_DATE)
                /\ pass' = Set(pass, u, [seed |-> "order_start"])
                /\ out' = Answer(u, "")
    /\ UNCHANGED db /\ Frame

\* ORDER BY created_at DESC LIMIT ?: the ids of the newest rows first.  The
\* ids are AUTOINCREMENT and created_at is the time of the insert, so a later
\* row has the larger id.
RECURSIVE Newest(_, _)
Newest(ids, limit) ==
    IF ids = {} \/ limit <= 0 THEN <<>>
    ELSE LET o == CHOOSE x \in ids : \A y \in ids : y <= x
         IN  <<o>> \o Newest(ids \ {o}, limit - 1)

\* The newest orders of the user, whatever their status
get_last_orders(d, user_id, limit) ==
    Newest({o \in DOMAIN d.orders : d.orders[o].user_id = user_id}, limit)

\* SELECT ... WHERE user_id = ? AND status = 'completed' ORDER BY created_at
\* DESC LIMIT ?
get_last_completed_orders(d, user_id, limit) ==
    Newest({o \in DOMAIN d.orders :
               d.orders[o].user_id = user_id /\ d.orders[o].status = STATUS_DONE}, limit)

RepeatLimit == 3         \* orders.py: get_last_completed_orders(..., limit=3)

\* orders.py: the main-menu text "repeat order"; one message with the button
\* "repeat_order:<id>" for each order of the list, then the main menu
repeat_order(u) ==
    /\ Route(fsm[u], Text(LBL_REPEAT)) = "repeat_order"
    /\ IF get_last_completed_orders(db, u, RepeatLimit) = <<>>
       THEN /\ kb' = Set(kb, u, NoMarkup)
            /\ out' = Answer(u, NOTICE_NO_COMPLETED)
            /\ UNCHANGED data
       ELSE /\ data' = Set(data, u, EmptyData)
            /\ kb' = Set(kb, u, main_menu_kb)
            /\ out' = Answer(u, "")
    /\ UNCHANGED <<db, fsm, pass>> /\ Frame

\* orders.py: "repeat_order:<order id>"
repeat_order_callback(u, order_id) ==
    /\ Route(fsm[u], Callback(<<"repeat_order", order_id>>)) = "repeat_order_callback"
    /\ LET order == get_order(db, order_id)
           product == IF order = <<>> THEN <<>> ELSE get_product(db, order[1].product_id)
       IN  IF order = <<>>
           THEN /\ out' = Answer(u, NOTICE_NO_ORDER)
                /\ UNCHANGED <<fsm, data, kb, pass>>
           ELSE /\ data' = Set(data, u, update_data(data[u],
                               [product_id |-> order[1].product_id,
                                product_price |-> order[1].price,
                                product_name |-> IF product = <<>> THEN <<"B", "u", "k", "e", "t">>
                                                 ELSE product[1].name]))
                /\ kb' = Set(kb, u, order_date_kb(TRUE, now.day))
                /\ fsm' = Set(fsm, u, S_DATE)
                /\ pass' = Set(pass, u, [seed |-> "repeat_order",
                                           repeated |-> order[1].product_id])
                /\ out' = Answer(u, "")
    /\ UNCHANGED db /\ Frame

\* orders.py: "date_selected:<today | tomorrow | ISO date>"
date_selected(u, value) ==
    /\ Route(fsm[u], Callback(<<"date_selected", value>>)) = "date_selected"
    /\ LET selected == IF value = "today" THEN now.day
                       ELSE IF value = "tomorrow" THEN now.day + 1
                       ELSE fromisoformat(value)
       IN  /\ data' = Set(data, u, update_data(data[u], [delivery_date |-> isoformat(selected)]))
           /\ pass' = Set(pass, u, update_data(pass[u], [delivery_date |-> isoformat(selected)]))
    /\ kb' = Set(kb, u, order_time_kb)
    /\ fsm' = Set(fsm, u, S_TIME)
    /\ out' = Answer(u, "")
    /\ UNCHANGED db /\ Frame

\* time_selected asking for the card at once, the address never collected
time_selected_skips_address(u, slot) ==
    /\ Route(fsm[u], Callback(<<"time_selected", slot>>)) = "time_selected"
    /\ data' = Set(data, u, update_data(data[u], [delivery_time |-> slot]))
    /\ pass' = Set(pass, u, update_data(pass[u], [delivery_time |-> slot]))
    /\ kb' = Set(kb, u, card_text_kb)
    /\ fsm' = Set(fsm, u, S_CARD)
    /\ out' = Answer(u, "")
    /\ UNCHANGED db /\ Frame

\* orders.py: "time_selected:<slot>"
time_selected(u, slot) ==
    /\ Route(fsm[u], Callback(<<"time_selected", slot>>)) = "time_selected"
    /\ data' = Set(data, u, update_data(data[u], [delivery_time |-> slot]))
    /\ pass' = Set(pass, u, update_data(pass[u], [delivery_time |-> slot]))
    /\ kb' = Set(kb, u, location_request_kb)
    /\ fsm' = Set(fsm, u, S_ADDRESS)
    /\ out' = Answer(u, "")
    /\ UNCHANGED db /\ Frame

back_to_date(u) ==
    /\ Route(fsm[u], Callback(<<"back_to_date">>)) = "back_to_date"
    /\ fsm' = Set(fsm, u, S_DATE)
    /\ kb' = Set(kb, u, order_date_kb(TRUE, now.day))
    /\ pass' = Set(pass, u, Reenter(pass[u]))
    /\ out' = Answer(u, "")
    /\ UNCHANGED <<db, data>> /\ Frame

\* cancel_order with set_state(None) in place of clear(): the data stay
cancel_keeps_data(u) ==
    /\ Route(fsm[u], Callback(<<"order_cancel">>)) = "cancel_order"
    /\ fsm' = Set(fsm, u, S_NONE)
    /\ pass' = Set(pass, u, [cancelled_in |-> fsm[u]])
    /\ kb' = Set(kb, u, main_menu_kb)
    /\ out' = Answer(u, NOTICE_CANCELLED)
    /\ UNCHANGED <<db, data>> /\ Frame

cancel_order(u) ==
    /\ Route(fsm[u], Callback(<<"order_cancel">>)) = "cancel_order"
    /\ fsm' = Set(fsm, u, S_NONE)
    /\ data' = Set(data, u, EmptyData)
    /\ pass' = Set(pass, u, [cancelled_in |-> fsm[u]])
    /\ kb' = Set(kb, u, main_menu_kb)
    /\ out' = Answer(u, NOTICE_CANCELLED)
    /\ UNCHANGED db /\ Frame

\* f"geo:{loc.latitude},{loc.longitude}"
GeoMarker(loc) == <<"g", "e", "o", ":">> \o loc.latitude \o <<",">> \o loc.longitude

address_location(u, loc) ==
    /\ Route(fsm[u], Location(loc)) = "address_location"
    /\ data' = Set(data, u, update_data(data[u], [address |-> GeoMarker(loc)]))
    /\ pass' = Set(pass, u, update_data(pass[u], [location |-> GeoMarker(loc)]))
    /\ kb' = Set(kb, u, NoMarkup)
    /\ out' = Answer(u, "")
    /\ UNCHANGED <<db, fsm>> /\ Frame

address_text(u, t) ==
    /\ Route(fsm[u], Text(t)) = "address_text"
    /\ IF Len(strip(t)) < MinAddressLen
       THEN /\ kb' = Set(kb, u, NoMarkup)
            /\ UNCHANGED <<fsm, data, pass>>
       ELSE /\ data' = Set(data, u, update_data(data[u], [address |-> strip(t)]))
            /\ pass' = Set(pass, u, update_data(pass[u], [address |-> strip(t)]))
            /\ kb' = Set(kb, u, card_text_kb)
            /\ fsm' = Set(fsm, u, S_CARD)
    /\ out' = Answer(u, "")
    /\ UNCHANGED db /\ Frame

card_write(u) ==
    /\ Route(fsm[u], Callback(<<"card_write">>)) = "card_write"
    /\ kb' = Set(kb, u, NoMarkup)
    /\ out' = Answer(u, "")
    /\ UNCHANGED <<db, fsm, data, pass>> /\ Frame

\* ask_phone: set_state(waiting_for_phone), the prompt with phone_request_kb
card_skip(u) ==
    /\ Route(fsm[u], Callback(<<"card_skip">>)) = "card_skip"
    /\ data' = Set(data, u, update_data(data[u], [card_text |-> None]))
    /\ pass' = Set(pass, u, update_data(pass[u], [card_text |-> None]))
    /\ fsm' = Set(fsm, u, S_PHONE)
    /\ kb' = Set(kb, u, phone_request_kb)
    /\ out' = Answer(u, "")
    /\ UNCHANGED db /\ Frame

card_back(u) ==
    /\ Route(fsm[u], Callback(<<"card_back">>)) = "card_back"
    /\ fsm' = Set(fsm, u, S_ADDRESS)
    /\ kb' = Set(kb, u, location_request_kb)
    /\ out' = Answer(u, "")
    /\ UNCHANGED <<db, data, pass>> /\ Frame

card_text(u, t) ==
    /\ Route(fsm[u], Text(t)) = "card_text"
    /\ data' = Set(data, u, update_data(data[u], [card_text |-> normalize_card_text(t)]))
    /\ pass' = Set(pass, u, update_data(pass[u], [card_text |-> normalize_card_text(t)]))
    /\ fsm' = Set(fsm, u, S_PHONE)
    /\ kb' = Set(kb, u, phone_request_kb)
    /\ out' = Answer(u, "")
    /\ UNCHANGED db /\ Frame

\* show_summary: the summary with create_confirmation_kb, then
\* set_state(waiting_for_confirmation)
phone_contact(u, phone) ==
    /\ Route(fsm[u], Contact(phone)) = "phone_contact"
    /\ data' = Set(data, u, update_data(data[u], [phone |-> phone]))
    /\ pass' = Set(pass, u, update_data(pass[u], [phone |-> phone]))
    /\ kb' = Set(kb, u, create_confirmation_kb)
    /\ fsm' = Set(fsm, u, S_CONFIRM)
    /\ out' = Answer(u, "")
    /\ UNCHANGED db /\ Frame

phone_text(u, t) ==
    /\ Route(fsm[u], Text(t)) = "phone_text"
    /\ IF ~is_phone_valid(strip(t))
       THEN /\ kb' = Set(kb, u, NoMarkup)
            /\ UNCHANGED <<fsm, data, pass>>
       ELSE /\ data' = Set(data, u, update_data(data[u], [phone |-> strip(t)]))
            /\ pass' = Set(pass, u, update_data(pass[u], [phone |-> strip(t)]))
            /\ kb' = Set(kb, u, create_confirmation_kb)
            /\ fsm' = Set(fsm, u, S_CONFIRM)
    /\ out' = Answer(u, "")
    /\ UNCHANGED db /\ Frame

\* An edit that reopens the phone step alone
order_edit_phone(u) ==
    /\ Route(fsm[u], Callback(<<"order_edit">>)) = "order_edit"
    /\ fsm' = Set(fsm, u, S_PHONE)
    /\ kb' = Set(kb, u, phone_request_kb)
    /\ out' = Answer(u, "")
    /\ UNCHANGED <<db, data, pass>> /\ Frame

order_edit(u) ==
    /\ Route(fsm[u], Callback(<<"order_edit">>)) = "order_edit"
    /\ fsm' = Set(fsm, u, S_DATE)
    /\ kb' = Set(kb, u, order_date_kb(TRUE, now.day))
    /\ pass' = Set(pass, u, Reenter(pass[u]))
    /\ out' = Answer(u, "")
    /\ UNCHANGED <<db, data>> /\ Frame

\* order_confirm written with the price copied into the dialogue data
snapshot_price(d, product) == d.product_price

\* The price order_confirm gives to create_order: that of the row read by
\* get_product in the same handler run.
confirm_price(d, product) == product.price

\* orders.py: "order_confirm"; `fails` are the positions of admin_ids whose
\* delivery fails this time.
order_confirm(u, fails) ==
    /\ Route(fsm[u], Callback(<<"order_confirm">>)) = "order_confirm"
    /\ LET d == data[u]
           product == IF Has(d, "product_id") THEN get_product(db, d.product_id) ELSE <<>>
       IN  IF ~Has(d, "product_id")
           THEN \* data["product_id"]: KeyError
                /\ out' = Crashed(u, <<>>)
                /\ UNCHANGED <<db, fsm, data, kb, pass>>
           ELSE IF product = <<>>
           THEN /\ out' = Answer(u, NOTICE_NO_PRODUCT)
                /\ UNCHANGED <<db, fsm, data, kb, pass>>
           ELSE IF ~({"delivery_date", "delivery_time", "address", "phone"} \subseteq DOMAIN d)
           THEN \* KeyError while the arguments of create_order are built
                /\ out' = Crashed(u, <<>>)
                /\ UNCHANGED <<db, fsm, data, kb, pass>>
           ELSE /\ db.seq.orders < durable.seq.orders + MaxOrders
                /\ LET created == create_order(db,
                                      [user_id |-> u,
                                       username |-> UsernameOf(u),
                                       product_id |-> d.product_id,
                                       price |-> confirm_price(d, product[1]),
                                       delivery_date |-> d.delivery_date,
                                       delivery_time |-> d.delivery_time,
                                       address |-> d.address,
                                       card_text |-> IF Has(d, "card_text") THEN d.card_text ELSE None,
                                       phone |-> d.phone,
                                       status |-> STATUS_NEW])
                       told == notify_admins(admin_ids, fails)
                   IN  /\ db' = created.db
                       /\ IF told.raised
                          THEN /\ out' = Crashed(u, told.attempts)
                               /\ UNCHANGED <<fsm, data, kb, pass>>
                          ELSE /\ kb' = Set(kb, u, main_menu_kb)
                               /\ fsm' = Set(fsm, u, S_NONE)
                               /\ data' = Set(data, u, EmptyData)
                               /\ pass' = Set(pass, u, update_data(pass[u],
                                              [order_id |-> created.lastrowid,
                                               quoted |-> d.product_price]))
                               /\ out' = [to |-> u, answer |-> "", sent |-> told.attempts,
                                          raised |-> FALSE]
    /\ Frame

\* orders.py: admin_order_accept / admin_order_reject, which differ in the
\* status they set and in the text sent to the customer.
moderate(u, order_id, status, ok) ==
    IF ~_ensure_admin(u)
    THEN /\ out' = Answer(u, NOTICE_RIGHTS)
         /\ UNCHANGED db
    ELSE LET order == get_order(db, order_id)
         IN  IF order = <<>>
             THEN /\ out' = Answer(u, NOTICE_NO_ORDER)
                  /\ UNCHANGED db
             ELSE LET told == try_send(order[1].user_id, ok)
                  IN  /\ db' = update_order_status(db, order_id, status).db
                      /\ out' = IF told.raised THEN Crashed(u, told.attempts)
                                ELSE [to |-> u, answer |-> NOTICE_STATUS,
                                      sent |-> told.attempts, raised |-> FALSE]

\* A moderation action that marks the order as delivered
admin_order_complete(u, order_id, ok) ==
    /\ Route(fsm[u], Callback(<<"admin_order_accept", order_id>>)) = "admin_order_accept"
    /\ moderate(u, order_id, STATUS_DONE, ok)
    /\ UNCHANGED <<fsm, data, kb, pass>> /\ Frame

admin_order_accept(u, order_id, ok) ==
    /\ Route(fsm[u], Callback(<<"admin_order_accept", order_id>>)) = "admin_order_accept"
    /\ moderate(u, order_id, STATUS_IN_WORK, ok)
    /\ UNCHANGED <<fsm, data, kb, pass>> /\ Frame

admin_order_reject(u, order_id, ok) ==
    /\ Route(fsm[u], Callback(<<"admin_order_reject", order_id>>)) = "admin_order_reject"
    /\ moderate(u, order_id, STATUS_CANCELLED, ok)
    /\ UNCHANGED <<fsm, data, kb, pass>> /\ Frame

(***************************************************************************)
(* admin.py                                                                *)
(***************************************************************************)
admin_main_menu_kb ==
    << << <<"admin", "add_product">> >>, << <<"admin", "edit_product">> >>,
       << <<"admin", "delete_product">> >>, << <<"admin", "categories">> >>,
       << <<"admin", "stats">> >>, << <<"admin", "orders">> >>, << <<"main_menu">> >> >>

\* get_categories: ORDER BY id ASC; one row of the keyboard per category
RECURSIVE CategoryRows(_, _)
CategoryRows(d, ids) ==
    IF ids = {} THEN <<>>
    ELSE LET c == CHOOSE x \in ids : \A y \in ids : x <= y
         IN  << << <<"admin", "category", c>> >> >> \o CategoryRows(d, ids \ {c})

admin_categories_kb(d) ==
    CategoryRows(d, DOMAIN d.categories)
        \o << << <<"admin", "add_category">>, <<"admin", "back">> >> >>

\* /admin: an identity outside admin_ids gets no reply at all
admin_entry(u) ==
    /\ Route(fsm[u], Text(CMD_ADMIN)) = "admin_entry"
    /\ IF is_admin(u) THEN kb' = Set(kb, u, admin_main_menu_kb) ELSE UNCHANGED kb
    /\ out' = Answer(u, "")
    /\ UNCHANGED <<db, fsm, data, pass>> /\ Frame

\* "admin:back": edit_text with the admin menu; no check of the caller
admin_back(u) ==
    /\ Route(fsm[u], Callback(<<"admin", "back">>)) = "admin_back"
    /\ kb' = Set(kb, u, admin_main_menu_kb)
    /\ out' = Answer(u, "")
    /\ UNCHANGED <<db, fsm, data, pass>> /\ Frame

\* "admin:add_product"
admin_add_product_start(u) ==
    /\ Route(fsm[u], Callback(<<"admin", "add_product">>)) = "admin_add_product_start"
    /\ IF ~is_admin(u)
       THEN /\ out' = Answer(u, NOTICE_RIGHTS)
            /\ UNCHANGED <<fsm, kb>>
       ELSE /\ fsm' = Set(fsm, u, A_PHOTO)
            /\ kb' = Set(kb, u, NoMarkup)
            /\ out' = Answer(u, "")
    /\ UNCHANGED <<db, data, pass>> /\ Frame

\* "admin:categories" without the is_admin check
admin_categories_open(u) ==
    /\ Route(fsm[u], Callback(<<"admin", "categories">>)) = "admin_categories"
    /\ fsm' = Set(fsm, u, C_ACTION)
    /\ kb' = Set(kb, u, admin_categories_kb(db))
    /\ out' = Answer(u, "")
    /\ UNCHANGED <<db, data, pass>> /\ Frame

\* "admin:categories"
admin_categories(u) ==
    /\ Route(fsm[u], Callback(<<"admin", "categories">>)) = "admin_categories"
    /\ IF ~is_admin(u)
       THEN /\ out' = Answer(u, NOTICE_RIGHTS)
            /\ UNCHANGED <<fsm, kb>>
       ELSE /\ fsm' = Set(fsm, u, C_ACTION)
            /\ kb' = Set(kb, u, admin_categories_kb(db))
            /\ out' = Answer(u, "")
    /\ UNCHANGED <<db, data, pass>> /\ Frame

\* "admin:add_category", in AdminCategoryStates.waiting_for_action only
admin_add_category(u) ==
    /\ Route(fsm[u], Callback(<<"admin", "add_category">>)) = "admin_add_category"
    /\ fsm' = Set(fsm, u, C_NAME)
    /\ kb' = Set(kb, u, NoMarkup)
    /\ out' = Answer(u, "")
    /\ UNCHANGED <<db, data, pass>> /\ Frame

\* An event no handler's filters match: nothing runs, a callback query is
\* left unanswered.
Unhandled == [to |-> 0, answer |-> "", sent |-> <<>>, raised |-> FALSE]

unhandled(u, ev) ==
    /\ Route(fsm[u], ev) = "unhandled"
    /\ out' = [Unhandled EXCEPT !.to = u]
    /\ UNCHANGED <<db, fsm, data, kb, pass>> /\ Frame

\* The callbacks of the admin panel and of order moderation
AdminCallbacks ==
    {<<"admin", "back">>, <<"admin", "add_product">>, <<"admin", "categories">>,
     <<"admin", "add_category">>, <<"admin", "product_save">>, <<"admin", "cancel_add">>}
        \cup {<<"admin", "category", c>> : c \in {1}}

(***************************************************************************)
(* The environment: time passes, and a price is changed through the        *)
(* storage layer (Database.update_product; no handler calls it).           *)
(***************************************************************************)
Tick(h) ==
    /\ \/ h > now.hour /\ now' = [now EXCEPT !.hour = h]
       \/ now.day < MaxDay /\ now' = [day |-> now.day + 1, hour |-> h]
    /\ UNCHANGED <<db, fsm, data, kb, out, pass, lock, task, durable, notify, view>>

set_price(product_id, price) ==
    /\ product_id \in DOMAIN db.products
    /\ db.products[product_id].price # price
    /\ db' = update_product(db, product_id, [price |-> price]).db
    /\ UNCHANGED <<now, fsm, data, kb, out, pass, lock, task, durable, notify, view>>

(***************************************************************************)
(* Spec: the chat handlers                                                 *)
(***************************************************************************)
\* The database file as earlier runs left it: create_schema, one product saved
\* through the add-product flow, and one order of the shopper, since delivered.
EarlierOrder ==
    [user_id |-> 2, username |-> UsernameOf(2), product_id |-> 1, price |-> InitialPrice,
     delivery_date |-> isoformat(-1), delivery_time |-> TimeSlots[1], address |-> strip(T_LONG),
     card_text |-> None, phone |-> T_PHONE, status |-> STATUS_NEW]

InitialDb ==
    LET d1 == add_product(create_schema, 1, <<"R", "o", "z", "y">>, InitialPrice, FALSE,
                          <<"2", "5">>, "photo-1").db
        d2 == create_order(d1, EarlierOrder).db
    IN  update_order_status(d2, 1, STATUS_DONE).db

Init ==
    /\ now = [day |-> 0, hour |-> 10]
    /\ db = InitialDb
    /\ fsm = [u \in Users |-> S_NONE]
    /\ data = [u \in Users |-> EmptyData]
    /\ kb = [u \in Users |-> NoMarkup]
    /\ out = Unhandled
    /\ pass = [u \in Users |-> EmptyData]
    /\ lock = 0
    /\ task = <<>>
    /\ durable = InitialDb
    /\ notify = <<>>
    /\ view = <<>>

\* One update from a shopper, dispatched to the handler that takes it
Dialogue(u) ==
    \/ cmd_start(u)
    \/ \E p \in ProductIds : order_start(u, p, 1, 1)
    \/ repeat_order(u)
    \/ \E o \in OrderIds : repeat_order_callback(u, o)
    \/ \E v \in DateValues : date_selected(u, v)
    \/ \E s \in SlotValues : time_selected(u, s)
    \/ back_to_date(u)
    \/ cancel_order(u)
    \/ \E loc \in Locations : address_location(u, loc)
    \/ \E t \in AddressTexts : address_text(u, t)
    \/ card_write(u)
    \/ card_skip(u)
    \/ card_back(u)
    \/ \E t \in CardTexts : card_text(u, t)
    \/ \E t \in ContactPhones : phone_contact(u, t)
    \/ \E t \in PhoneTexts : phone_text(u, t)
    \/ order_edit(u)
    \/ \E fails \in SUBSET (DOMAIN admin_ids) : order_confirm(u, fails)

Next ==
    \/ \E h \in Hours : Tick(h)
    \/ \E u \in Shoppers : Dialogue(u)

Spec == Init /\ [][Next]_vars

(***************************************************************************)
(* SpecPrice: the order dialogue while the product's price is changed      *)
(***************************************************************************)
NextPrice ==
    \/ \E p \in Prices : set_price(1, p)
    \/ \E u \in Shoppers : Dialogue(u)

SpecPrice == Init /\ [][NextPrice]_vars

(***************************************************************************)
(* Properties of the order dialogue                                        *)
(***************************************************************************)
NewOrders == (DOMAIN db'.orders) \ (DOMAIN db.orders)

Confirmed(u) == Has(pass[u], "order_id") /\ pass[u].order_id \in DOMAIN db.orders

\* C1: every order row a step creates carries the price the product has in
\* storage at that step, whatever price was copied into the dialogue data when
\* the order was started from the catalog or seeded from an earlier order.
C1_PriceAtConfirmation ==
    [][\A o \in NewOrders :
          LET row == db'.orders[o]
          IN  /\ row.product_id \in DOMAIN db.products
              /\ row.price = db.products[row.product_id].price]_vars

\* An order was confirmed after the price changed: the summary quoted the
\* snapshot, the row holds the other price.
C1_Witness ==
    \E u \in Shoppers :
        /\ Confirmed(u)
        /\ pass[u].seed = "order_start"
        /\ pass[u].quoted # db.orders[pass[u].order_id].price
        /\ db.orders[pass[u].order_id].price = db.products[1].price

\* C2: an order row appears only in a step of order_confirm taken in
\* waiting_for_confirmation; the dialogue moves forward only along
\* date -> time -> address -> card text -> phone -> confirmation (backwards only
\* from card text to address and, with the pass restarted, to the date); the
\* new row has the status of a new order and the date, time window, address,
\* card text and phone accepted since the dialogue last entered the date state.
PassFields == {"delivery_date", "delivery_time", "address", "card_text", "phone"}

Forward(u) ==
    /\ fsm'[u] = S_TIME => fsm[u] \in {S_TIME, S_DATE}
    /\ fsm'[u] = S_ADDRESS => fsm[u] \in {S_ADDRESS, S_TIME, S_CARD}
    /\ fsm'[u] = S_CARD => fsm[u] \in {S_CARD, S_ADDRESS}
    /\ fsm'[u] = S_PHONE => fsm[u] \in {S_PHONE, S_CARD}
    /\ fsm'[u] = S_CONFIRM => fsm[u] \in {S_CONFIRM, S_PHONE}
    /\ fsm'[u] = S_CONFIRM => PassFields \subseteq DOMAIN pass'[u]

C2_OrderOnlyByConfirm ==
    [][/\ \A u \in Users : Forward(u)
       /\ \A o \in NewOrders :
            LET row == db'.orders[o]
                u == row.user_id
            IN  /\ fsm[u] = S_CONFIRM
                /\ \E fails \in SUBSET (DOMAIN admin_ids) : order_confirm(u, fails)
                /\ row.status = STATUS_NEW
                /\ PassFields \subseteq DOMAIN pass[u]
                /\ \A k \in PassFields : row[k] = pass[u][k]]_vars

\* The scenario of the specification: "tomorrow", 12:00-15:00, a typed address,
\* no card, a typed phone; the row is new, at the product's price.
C2_Witness ==
    \E u \in Shoppers :
        /\ Confirmed(u)
        /\ LET row == db.orders[pass[u].order_id]
           IN  /\ row.status = STATUS_NEW
               /\ row.delivery_date = isoformat(now.day + 1)
               /\ row.delivery_time = TimeSlots[2]
               /\ row.address = strip(T_LONG)
               /\ row.card_text = None
               /\ row.phone = T_PHONE
               /\ row.price = InitialPrice
               /\ \A k \in PassFields : row[k] = pass[u][k]

\* C8: in each of the six states of the order dialogue the callback
\* "order_cancel" is dispatched to cancel_order, the menu that opened the
\* dialogue carries its button, and a step of cancel_order leaves the user
\* without state and without data and the orders table as it was.
C8_CancelEverywhere ==
    /\ [](\A u \in Users :
            fsm[u] \in OrderStates =>
                /\ Route(fsm[u], Callback(<<"order_cancel">>)) = "cancel_order"
                /\ \A b \in BOOLEAN : <<"order_cancel">> \in Buttons(order_date_kb(b, now.day)))
    /\ [][\A u \in Users :
            cancel_order(u) => /\ fsm'[u] = S_NONE
                               /\ data'[u] = EmptyData
                               /\ db'.orders = db.orders]_vars

\* The dialogue was cancelled while it waited for the phone, a state whose
\* own prompt has no inline button
C8_Witness ==
    \E u \in Shoppers :
        /\ out = Answer(u, NOTICE_CANCELLED)
        /\ pass[u] = [cancelled_in |-> S_PHONE]
        /\ fsm[u] = S_NONE
        /\ data[u] = EmptyData
        /\ DOMAIN db.orders = DOMAIN InitialDb.orders

\* C9: a step that presents the date menu of an order started from the
\* catalog when it is 18:00 or later offers no button for the current day, and
\* a date chosen at 18:00 or later in such an order is not the current day.
PresentsDateMenu(u) ==
    \/ \E p \in ProductIds : order_start(u, p, 1, 1) /\ fsm'[u] = S_DATE
    \/ back_to_date(u)
    \/ order_edit(u)

SelectsToday(button) ==
    button \in {<<"date_selected", "today">>, <<"date_selected", isoformat(now.day)>>}

C9_NoSameDayAfterCutoff ==
    [][\A u \in Users :
          (is_after_six_pm(now) /\ Has(pass'[u], "seed") /\ pass'[u].seed = "order_start") =>
              /\ PresentsDateMenu(u) => \A b \in Buttons(kb'[u]) : ~SelectsToday(b)
              /\ (\E v \in DateValues : date_selected(u, v)) =>
                     data'[u].delivery_date # isoformat(now.day)]_vars

\* C10: a step of address_location records the geo marker as the address and
\* moves the dialogue to waiting_for_card_text, and the order confirmed
\* after a location was shared has the marker as its address.
C10_LocationAdvances ==
    [][/\ \A u \in Users : \A loc \in Locations :
            address_location(u, loc) => /\ data'[u].address = GeoMarker(loc)
                                        /\ fsm'[u] = S_CARD
       /\ \A o \in NewOrders :
            LET u == db'.orders[o].user_id
            IN  Has(pass[u], "location") => db'.orders[o].address = pass[u].location]_vars

(***************************************************************************)
(* SpecAdmin: the admin panel and the moderation of orders, with the       *)
(* administrator and an identity outside admin_ids pressing the buttons    *)
(***************************************************************************)
Moderation(u) ==
    \/ \E o \in OrderIds, ok \in BOOLEAN : admin_order_accept(u, o, ok)
    \/ \E o \in OrderIds, ok \in BOOLEAN : admin_order_reject(u, o, ok)

\* The callbacks of the admin panel
PanelCallback(u) ==
    \/ admin_back(u)
    \/ admin_add_product_start(u)
    \/ admin_categories(u)
    \/ admin_add_category(u)
    \/ \E d \in AdminCallbacks : unhandled(u, Callback(d))

NextAdmin ==
    \/ \E u \in Users : Moderation(u) \/ PanelCallback(u) \/ admin_entry(u) \/ cmd_start(u)
    \/ \E u \in Shoppers : order_start(u, 1, 1, 1) \/ cancel_order(u)

SpecAdmin == Init /\ [][NextAdmin]_vars

NonAdmins == {u \in Users : ~is_admin(u)}

\* The caller was told "insufficient rights" and nothing of theirs changed
Refused(u) ==
    /\ out' = Answer(u, NOTICE_RIGHTS)
    /\ db' = db
    /\ fsm'[u] = fsm[u]
    /\ data'[u] = data[u]

\* C5: whatever admin-only callback an identity outside admin_ids sends, the
\* step that takes it answers "insufficient rights" and changes neither the
\* database nor the caller's state and data.
C5_AdminOnly ==
    [][\A u \in NonAdmins : (Moderation(u) \/ PanelCallback(u)) => Refused(u)]_vars

\* C6: a step of admin_order_accept (admin_order_reject) by an administrator
\* on an existing order leaves the order "in work" ("cancelled") and answers
\* "status updated", whether the message to the customer was delivered or not.
Moderated(o, status) ==
    /\ db'.orders[o].status = status
    /\ out'.answer = NOTICE_STATUS
    /\ ~out'.raised

C6_StatusDespiteFailure ==
    [][\A u \in Users, o \in OrderIds, ok \in BOOLEAN :
          (is_admin(u) /\ o \in DOMAIN db.orders) =>
              /\ admin_order_accept(u, o, ok) => Moderated(o, STATUS_IN_WORK)
              /\ admin_order_reject(u, o, ok) => Moderated(o, STATUS_CANCELLED)]_vars

\* The order was rejected and the customer could not be told
C6_Witness ==
    /\ db.orders[1].status = STATUS_CANCELLED
    /\ out.answer = NOTICE_STATUS
    /\ out.sent = <<[to |-> db.orders[1].user_id, ok |-> FALSE]>>

(***************************************************************************)
(* SpecDb: concurrent callers of the storage layer.  Each write is         *)
(*     async with self._lock:                                              *)
(*         await self._conn.execute(...)                                   *)
(*         await self._conn.commit()                                       *)
(* on the one connection: `db` is what the connection sees, `durable` what *)
(* has been committed, `lock` the caller holding self._lock (0: nobody).   *)
(***************************************************************************)
Callers == 1..NCallers

\* The writes a caller may ask for, one of each operation
WriteOps(c) ==
    {[kind |-> "add_category", name |-> "Piony"],
     [kind |-> "rename_category", category_id |-> 2, new_name |-> "Tulpany"],
     [kind |-> "delete_category", category_id |-> 2],
     [kind |-> "add_product", category_id |-> 2],
     [kind |-> "update_product", product_id |-> 1, price |-> InitialPrice + c],
     [kind |-> "delete_product", product_id |-> 2],
     [kind |-> "create_order", user_id |-> c],
     [kind |-> "update_order_status", order_id |-> 2],
     [kind |-> "save_support_message", user_id |-> c]}

Write(d, op) ==
    CASE op.kind = "add_category" -> add_category(d, op.name)
      [] op.kind = "rename_category" -> rename_category(d, op.category_id, op.new_name)
      [] op.kind = "delete_category" -> delete_category(d, op.category_id)
      [] op.kind = "add_product" ->
            add_product(d, op.category_id, <<"P", "i", "o", "n">>, InitialPrice, TRUE,
                        <<"7">>, "photo-2")
      [] op.kind = "update_product" -> update_product(d, op.product_id, [price |-> op.price])
      [] op.kind = "delete_product" -> delete_product(d, op.product_id)
      [] op.kind = "create_order" ->
            create_order(d, [EarlierOrder EXCEPT !.user_id = op.user_id, !.username = None])
      [] op.kind = "update_order_status" ->
            update_order_status(d, op.order_id, STATUS_IN_WORK)
      [] op.kind = "save_support_message" ->
            save_support_message(d, op.user_id, None, T_SHORT)

InitDb ==
    /\ now = [day |-> 0, hour |-> 10]
    /\ db = InitialDb
    /\ durable = InitialDb
    /\ lock = 0
    /\ task \in [Callers -> UNION {{[pc |-> "call", op |-> o, lastrowid |-> 0, raised |-> FALSE] :
                                       o \in WriteOps(c)} : c \in Callers}]
    /\ \A c \in Callers : task[c].op \in WriteOps(c)
    /\ fsm = [u \in Users |-> S_NONE]
    /\ data = [u \in Users |-> EmptyData]
    /\ kb = [u \in Users |-> NoMarkup]
    /\ out = Unhandled
    /\ pass = [u \in Users |-> EmptyData]
    /\ notify = <<>>
    /\ view = <<>>

Chat == UNCHANGED <<now, fsm, data, kb, out, pass, notify, view>>

\* A write that does not wait for the lock
acquire_unguarded(c) ==
    /\ task[c].pc = "call"
    /\ lock' = c
    /\ task' = [task EXCEPT ![c].pc = "locked"]
    /\ UNCHANGED <<db, durable>> /\ Chat

\* async with self._lock: entered when nobody holds the lock
acquire(c) ==
    /\ task[c].pc = "call"
    /\ lock = 0
    /\ lock' = c
    /\ task' = [task EXCEPT ![c].pc = "locked"]
    /\ UNCHANGED <<db, durable>> /\ Chat

\* A write whose lock is kept when the statement raises
execute_holding(c) ==
    /\ task[c].pc = "locked"
    /\ LET r == Write(db, task[c].op)
       IN  IF r.raised
           THEN /\ task' = [task EXCEPT ![c].pc = "done", ![c].raised = TRUE]
                /\ UNCHANGED <<db, lock>>
           ELSE /\ task' = [task EXCEPT ![c].pc = "executed", ![c].lastrowid = r.lastrowid]
                /\ db' = r.db
                /\ UNCHANGED lock
    /\ UNCHANGED durable /\ Chat

\* await self._conn.execute(...): the statement runs on the connection; an
\* IntegrityError leaves the block, which releases the lock, without a commit
execute(c) ==
    /\ task[c].pc = "locked"
    /\ LET r == Write(db, task[c].op)
       IN  IF r.raised
           THEN /\ task' = [task EXCEPT ![c].pc = "done", ![c].raised = TRUE]
                /\ lock' = IF lock = c THEN 0 ELSE lock
                /\ UNCHANGED db
           ELSE /\ task' = [task EXCEPT ![c].pc = "executed", ![c].lastrowid = r.lastrowid]
                /\ db' = r.db
                /\ UNCHANGED lock
    /\ UNCHANGED durable /\ Chat

\* A write whose commit is forgotten
commit_forgotten(c) ==
    /\ task[c].pc = "executed"
    /\ task' = [task EXCEPT ![c].pc = "committed"]
    /\ UNCHANGED <<db, durable, lock>> /\ Chat

\* await self._conn.commit(): what the connection holds becomes durable
commit(c) ==
    /\ task[c].pc = "executed"
    /\ durable' = db
    /\ task' = [task EXCEPT ![c].pc = "committed"]
    /\ UNCHANGED <<db, lock>> /\ Chat

\* the end of the block: the lock is released, cursor.lastrowid is returned
release(c) ==
    /\ task[c].pc = "committed"
    /\ lock' = IF lock = c THEN 0 ELSE lock
    /\ task' = [task EXCEPT ![c].pc = "done"]
    /\ UNCHANGED <<db, durable>> /\ Chat

NextDb == \E c \in Callers : acquire(c) \/ execute(c) \/ commit(c) \/ release(c)

SpecDb == InitDb /\ [][NextDb]_vars

\* C3: at every moment at most one caller is between the execute and the
\* commit of its write.
InWrite == {c \in Callers : task[c].pc = "executed"}

C3_OneWriteAtATime == Cardinality(InWrite) <= 1

\* A caller is between execute and commit while another waits for the lock
C3_Witness ==
    \E c1, c2 \in Callers :
        /\ c1 # c2
        /\ task[c1].pc = "executed"
        /\ task[c2].pc = "call"
        /\ lock = c1
        /\ ~ENABLED acquire(c2)

\* C4: when all callers have returned, what is stored is what the writes give
\* when applied one after another in some order, each caller got what its
\* write returns in that order, and the create_order callers hold pairwise
\* distinct ids, each the id of the row with the caller's user_id.
Orders == {s \in [Callers -> Callers] : \A i, j \in Callers : s[i] = s[j] => i = j}

RECURSIVE Serial(_, _, _)
Serial(d, s, i) ==
    IF i > NCallers THEN [db |-> d, ret |-> [c \in {} |-> 0]]
    ELSE LET r == Write(d, task[s[i]].op)
             rest == Serial(r.db, s, i + 1)
         IN  [db |-> rest.db,
              ret |-> [c \in (DOMAIN rest.ret) \cup {s[i]} |->
                          IF c = s[i] THEN [lastrowid |-> r.lastrowid, raised |-> r.raised]
                          ELSE rest.ret[c]]]

AllDone == \A c \in Callers : task[c].pc = "done"

Creators == {c \in Callers : task[c].op.kind = "create_order"}

C4_Serializable ==
    AllDone =>
        /\ \E s \in Orders :
             LET r == Serial(InitialDb, s, 1)
             IN  /\ durable = r.db
                 /\ \A c \in Callers : /\ task[c].raised = r.ret[c].raised
                                       /\ task[c].lastrowid = r.ret[c].lastrowid
        /\ db = durable
        /\ Cardinality(DOMAIN durable.orders) =
               Cardinality(DOMAIN InitialDb.orders) + Cardinality(Creators)
        /\ \A c \in Creators : /\ task[c].lastrowid \in DOMAIN durable.orders
                               /\ durable.orders[task[c].lastrowid].user_id = c
        /\ \A c1, c2 \in Creators : c1 # c2 => task[c1].lastrowid # task[c2].lastrowid

\* Every caller ran create_order and all have returned
C4_Witness ==
    /\ AllDone
    /\ Creators = Callers
    /\ Cardinality({task[c].lastrowid : c \in Callers}) = NCallers

(***************************************************************************)
(* SpecNotify: notify_admins on a list of administrators, some of whose    *)
(* deliveries fail                                                         *)
(***************************************************************************)
AdminLists == UNION {[1..n -> 1..MaxAdmins] : n \in 0..MaxAdmins}

InitNotify ==
    /\ notify \in {[admin_ids |-> ids, fails |-> f, called |-> FALSE,
                   result |-> [attempts |-> <<>>, raised |-> FALSE]] :
                      ids \in AdminLists, f \in SUBSET (1..MaxAdmins)}
    /\ notify.fails \subseteq DOMAIN notify.admin_ids
    /\ now = [day |-> 0, hour |-> 10]
    /\ db = InitialDb
    /\ durable = InitialDb
    /\ lock = 0
    /\ task = <<>>
    /\ fsm = [u \in Users |-> S_NONE]
    /\ data = [u \in Users |-> EmptyData]
    /\ kb = [u \in Users |-> NoMarkup]
    /\ out = Unhandled
    /\ pass = [u \in Users |-> EmptyData]
    /\ view = <<>>

Broadcast ==
    /\ ~notify.called
    /\ notify' = [notify EXCEPT !.called = TRUE,
                                !.result = notify_admins(notify.admin_ids, notify.fails)]
    /\ UNCHANGED <<now, db, fsm, data, kb, out, pass, lock, task, durable, view>>

NextNotify == Broadcast

SpecNotify == InitNotify /\ [][NextNotify]_vars

\* C7: after notify_admins the deliveries attempted are one per entry of the
\* list, entry by entry in list order, those at the failing positions failed
\* and the others went through, and no exception left the function.
C7_EveryAdminOnce ==
    notify.called =>
        /\ ~notify.result.raised
        /\ Len(notify.result.attempts) = Len(notify.admin_ids)
        /\ \A i \in DOMAIN notify.admin_ids :
             /\ notify.result.attempts[i].to = notify.admin_ids[i]
             /\ notify.result.attempts[i].ok = (i \notin notify.fails)

\* Three administrators, the delivery to the first fails, the other two get it
C7_Witness ==
    /\ notify.called
    /\ Len(notify.admin_ids) = MaxAdmins
    /\ notify.fails = {1}
    /\ \A i \in 2..MaxAdmins : notify.result.attempts[i].ok

(***************************************************************************)
(* admin.py: the add-product conversation                                  *)
(***************************************************************************)
MaxSaved == 1           \* products the administrator may save in a run

NameMin == 3            \* admin.py: 3 <= len(name) <= 50
NameMax == 50
DescriptionMax == 500   \* admin.py: len(description) > 500

NOTICE_NAME_LENGTH == "Nazvanie dolzhno byt ot 3 do 50 simvolov."
NOTICE_PRICE_NUMBER == "Vvedite chislo ili 'ot 1800000'."
NOTICE_DESCRIPTION_LENGTH == "Opisanie dolzhno byt do 500 simvolov."

Photo(file_id) == [kind |-> "photo", file_id |-> file_id]

\* ch * n
Repeat(ch, n) == [i \in 1..n |-> ch]

\* The two Cyrillic letters of the prefix "ot" are the tokens "(o)" and "(t)",
\* their capitals "(O)" and "(T)"; "(sup2)" is the superscript two, a digit
\* for str.isdigit() that int() does not take.
PrefixFrom == <<"(o)", "(t)">>

lower(t) == [i \in DOMAIN t |-> IF t[i] = "(O)" THEN "(o)" ELSE IF t[i] = "(T)" THEN "(t)" ELSE t[i]]

isdigit(t) == t # <<>> /\ \A i \in DOMAIN t : t[i] \in Digits \cup {"(sup2)"}

DigitValue(ch) == CHOOSE v \in 0..9 : ToString(v) = ch

\* int(raw): the value, or ValueError
RECURSIVE int(_)
int(t) ==
    IF t = <<>> THEN [raised |-> FALSE, value |-> 0]
    ELSE IF t[Len(t)] \notin Digits THEN [raised |-> TRUE, value |-> 0]
    ELSE LET rest == int(SubSeq(t, 1, Len(t) - 1))
         IN  [raised |-> rest.raised, value |-> 10 * rest.value + DigitValue(t[Len(t)])]

T_NAME == <<" ", "P", "i", "o", "n", "y">>
T_PRICE == <<"2", "1", "0", "0", "0", "0", "0">>
T_PRICE_FROM == <<"(O)", "(t)", " ", "1", "8", "0", "0", "0", "0", "0">>

NameTexts == {T_NAME, <<"P", "i", " ">>, Repeat("x", NameMax + 1)}
PriceTexts == {T_PRICE, T_PRICE_FROM, T_SHORT, <<"(o)", "(t)">>, <<"1", "(sup2)">>}
DescriptionTexts == {T_LONG, Repeat("x", DescriptionMax + 1)}
PhotoIds == {"photo-2"}
CategoryIds == {1, 7}           \* category 7 does not exist

product_summary_kb ==
    << << <<"admin", "product_save">> >>, << <<"admin", "back">> >>,
       << <<"admin", "cancel_add">> >> >>

admin_add_photo(u, file_id) ==
    /\ Route(fsm[u], Photo(file_id)) = "admin_add_photo"
    /\ data' = Set(data, u, update_data(data[u], [photo_file_id |-> file_id]))
    /\ fsm' = Set(fsm, u, A_NAME)
    /\ kb' = Set(kb, u, NoMarkup)
    /\ out' = Answer(u, "")
    /\ UNCHANGED <<db, pass>> /\ Frame

\* The name step without the length check
admin_add_name_unchecked(u, t) ==
    /\ Route(fsm[u], Text(t)) = "admin_add_name"
    /\ data' = Set(data, u, update_data(data[u], [name |-> strip(t)]))
    /\ fsm' = Set(fsm, u, A_CATEGORY)
    /\ kb' = Set(kb, u, admin_categories_kb(db))
    /\ out' = Answer(u, "")
    /\ UNCHANGED <<db, pass>> /\ Frame

admin_add_name(u, t) ==
    /\ Route(fsm[u], Text(t)) = "admin_add_name"
    /\ LET name == strip(t)
       IN  IF ~(NameMin <= Len(name) /\ Len(name) <= NameMax)
           THEN /\ out' = Answer(u, NOTICE_NAME_LENGTH)
                /\ kb' = Set(kb, u, NoMarkup)
                /\ UNCHANGED <<fsm, data>>
           ELSE /\ data' = Set(data, u, update_data(data[u], [name |-> name]))
                /\ fsm' = Set(fsm, u, A_CATEGORY)
                /\ kb' = Set(kb, u, admin_categories_kb(db))
                /\ out' = Answer(u, "")
    /\ UNCHANGED <<db, pass>> /\ Frame

admin_add_category_selected(u, category_id) ==
    /\ Route(fsm[u], Callback(<<"admin", "category", category_id>>)) = "admin_add_category_selected"
    /\ data' = Set(data, u, update_data(data[u], [category_id |-> category_id]))
    /\ fsm' = Set(fsm, u, A_PRICE)
    /\ kb' = Set(kb, u, NoMarkup)
    /\ out' = Answer(u, "")
    /\ UNCHANGED <<db, pass>> /\ Frame

admin_add_price(u, t) ==
    /\ Route(fsm[u], Text(t)) = "admin_add_price"
    /\ LET raw0 == strip(t)
           price_from == StartsWith(lower(raw0), PrefixFrom)
           raw == IF price_from THEN strip(SubSeq(raw0, 3, Len(raw0))) ELSE raw0
       IN  IF ~isdigit(raw)
           THEN /\ out' = Answer(u, NOTICE_PRICE_NUMBER)
                /\ kb' = Set(kb, u, NoMarkup)
                /\ UNCHANGED <<fsm, data>>
           ELSE IF int(raw).raised
           THEN /\ out' = Crashed(u, <<>>)
                /\ UNCHANGED <<fsm, data, kb>>
           ELSE /\ data' = Set(data, u, update_data(data[u],
                               [price |-> int(raw).value, price_from |-> price_from]))
                /\ fsm' = Set(fsm, u, A_DESCRIPTION)
                /\ kb' = Set(kb, u, NoMarkup)
                /\ out' = Answer(u, "")
    /\ UNCHANGED <<db, pass>> /\ Frame

\* admin_add_description taking a description of any length
admin_add_description_unchecked(u, t) ==
    /\ Route(fsm[u], Text(t)) = "admin_add_description"
    /\ data' = Set(data, u, update_data(data[u], [description |-> strip(t)]))
    /\ fsm' = Set(fsm, u, A_CONFIRM)
    /\ kb' = Set(kb, u, product_summary_kb)
    /\ out' = Answer(u, "")
    /\ UNCHANGED <<db, pass>> /\ Frame

\* The summary reads data['name'], data['price'], data['price_from'] and
\* data["photo_file_id"] after the state was set: a missing key raises there.
admin_add_description(u, t) ==
    /\ Route(fsm[u], Text(t)) = "admin_add_description"
    /\ LET description == strip(t)
       IN  IF Len(description) > DescriptionMax
           THEN /\ out' = Answer(u, NOTICE_DESCRIPTION_LENGTH)
                /\ kb' = Set(kb, u, NoMarkup)
                /\ UNCHANGED <<fsm, data>>
           ELSE /\ data' = Set(data, u, update_data(data[u], [description |-> description]))
                /\ fsm' = Set(fsm, u, A_CONFIRM)
                /\ IF {"name", "price", "price_from", "photo_file_id"} \subseteq DOMAIN data[u]
                   THEN /\ kb' = Set(kb, u, product_summary_kb)
                        /\ out' = Answer(u, "")
                   ELSE /\ out' = Crashed(u, <<>>)
                        /\ UNCHANGED kb
    /\ UNCHANGED <<db, pass>> /\ Frame

\* "admin:product_save": an IntegrityError of add_product (no such category)
\* leaves the handler before state.clear()
admin_save_product(u) ==
    /\ Route(fsm[u], Callback(<<"admin", "product_save">>)) = "admin_save_product"
    /\ db.seq.products < 1 + MaxSaved
    /\ LET d == data[u]
       IN  IF ~({"category_id", "name", "price", "price_from", "description",
                 "photo_file_id"} \subseteq DOMAIN d)
           THEN /\ out' = Crashed(u, <<>>)
                /\ UNCHANGED <<db, fsm, data, kb>>
           ELSE LET added == add_product(db, d.category_id, d.name, d.price, d.price_from,
                                         d.description, d.photo_file_id)
                IN  IF added.raised
                    THEN /\ out' = Crashed(u, <<>>)
                         /\ UNCHANGED <<db, fsm, data, kb>>
                    ELSE /\ db' = added.db
                         /\ fsm' = Set(fsm, u, S_NONE)
                         /\ data' = Set(data, u, EmptyData)
                         /\ kb' = Set(kb, u, NoMarkup)
                         /\ out' = Answer(u, "")
    /\ UNCHANGED pass /\ Frame

admin_cancel_add(u) ==
    /\ Route(fsm[u], Callback(<<"admin", "cancel_add">>)) = "admin_cancel_add"
    /\ fsm' = Set(fsm, u, S_NONE)
    /\ data' = Set(data, u, EmptyData)
    /\ kb' = Set(kb, u, NoMarkup)
    /\ out' = Answer(u, "")
    /\ UNCHANGED <<db, pass>> /\ Frame

(***************************************************************************)
(* SpecInput: the administrator types an order's address and phone and a   *)
(* new product's name, price and description; some of it is rejected       *)
(***************************************************************************)
AddProduct(u) ==
    \/ admin_add_product_start(u)
    \/ \E f \in PhotoIds : admin_add_photo(u, f)
    \/ \E t \in NameTexts : admin_add_name(u, t)
    \/ \E c \in CategoryIds : admin_add_category_selected(u, c)
    \/ \E t \in PriceTexts : admin_add_price(u, t)
    \/ \E t \in DescriptionTexts : admin_add_description(u, t)
    \/ admin_save_product(u)
    \/ admin_cancel_add(u)
    \/ admin_back(u)

Typing(u) ==
    \/ order_start(u, 1, 1, 1)
    \/ date_selected(u, "tomorrow")
    \/ \E s \in SlotValues : time_selected(u, s)
    \/ \E loc \in Locations : address_location(u, loc)
    \/ \E t \in AddressTexts : address_text(u, t)
    \/ card_skip(u)
    \/ \E t \in PhoneTexts : phone_text(u, t)
    \/ cancel_order(u)

Typists == {admin_ids[1]}

NextInput == \E u \in Typists : AddProduct(u) \/ Typing(u)

SpecInput == Init /\ [][NextInput]_vars

\* The conversation of u is where it was
Kept(u) == fsm'[u] = fsm[u] /\ data'[u] = data[u]

\* The price text is a number, after the prefix "ot" if it has one
Numeric(t) ==
    LET raw0 == strip(t)
        raw == IF StartsWith(lower(raw0), PrefixFrom) THEN strip(SubSeq(raw0, 3, Len(raw0)))
               ELSE raw0
    IN  raw # <<>> /\ \A i \in DOMAIN raw : raw[i] \in Digits

\* C11: a step that takes an address text of fewer than 10 characters, a
\* phone text of none of the accepted shapes, a product name of fewer than 3
\* or more than 50 characters, a price text that is not a number or a
\* description of more than 500 characters leaves the sender's state and
\* data as they were.
C11_RejectedInputKeepsState ==
    [][\A u \in Users :
          /\ \A t \in AddressTexts :
                (address_text(u, t) /\ Len(strip(t)) < MinAddressLen) => Kept(u)
          /\ \A t \in PhoneTexts : (phone_text(u, t) /\ ~is_phone_valid(t)) => Kept(u)
          /\ \A t \in NameTexts :
                (admin_add_name(u, t) /\ Len(strip(t)) \notin NameMin..NameMax) => Kept(u)
          /\ \A t \in PriceTexts : (admin_add_price(u, t) /\ ~Numeric(t)) => Kept(u)
          /\ \A t \in DescriptionTexts :
                (admin_add_description(u, t) /\ Len(strip(t)) > DescriptionMax) => Kept(u)]_vars

\* The administrator was told that the description is too long and is still
\* asked for it; the name and the price given before are kept, and so is the
\* address of the order left for the admin panel.
C11_Witness ==
    /\ out = Answer(1, NOTICE_DESCRIPTION_LENGTH)
    /\ fsm[1] = A_DESCRIPTION
    /\ data[1].name = strip(T_NAME)
    /\ data[1].price = 1800000
    /\ data[1].price_from
    /\ Has(data[1], "address")
    /\ data[1].address = strip(T_LONG)

(***************************************************************************)
(* SpecStock: a shopper views and orders products while a product is       *)
(* deleted through the storage layer, and ids that are not stored arrive.  *)
(* SpecRepeat: a shopper with a history of delivered orders repeats orders *)
(* while the product is deactivated and an order is moderated.             *)
(***************************************************************************)
MaxHistory == 4         \* delivered orders of the shopper the bot starts with

product_detail_kb(product_id, category_id, page) ==
    << << <<"order_start", product_id, category_id, page>> >>,
       << <<"back_to_products", category_id, page>> >> >>

orders_list_nav_kb(order_id) == << << <<"order_details", order_id>> >>, << <<"main_menu">> >> >>

\* catalog.py: "product_view:<product>:<category>:<page>"
product_view(u, product_id, category_id, page) ==
    /\ Route(fsm[u], Callback(<<"product_view", product_id, category_id, page>>)) = "product_view"
    /\ LET product == get_product(db, product_id)
       IN  IF product = <<>>
           THEN /\ out' = Answer(u, NOTICE_NO_PRODUCT)
                /\ UNCHANGED kb
           ELSE /\ kb' = Set(kb, u, product_detail_kb(product[1].id, category_id, page))
                /\ out' = Answer(u, "")
    /\ UNCHANGED <<db, fsm, data, pass>> /\ Frame

\* orders.py: "order_details:<order id>"
order_details(u, order_id) ==
    /\ Route(fsm[u], Callback(<<"order_details", order_id>>)) = "order_details"
    /\ LET order == get_order(db, order_id)
       IN  IF order = <<>>
           THEN /\ out' = Answer(u, NOTICE_NO_ORDER)
                /\ UNCHANGED kb
           ELSE /\ kb' = Set(kb, u, orders_list_nav_kb(order[1].id))
                /\ out' = Answer(u, "")
    /\ UNCHANGED <<db, fsm, data, pass>> /\ Frame

\* Database.delete_product, which no handler calls: a product no order refers
\* to is deleted
remove_product(product_id) ==
    /\ product_id \in DOMAIN db.products
    /\ ~delete_product(db, product_id).raised
    /\ db' = delete_product(db, product_id).db
    /\ UNCHANGED <<now, fsm, data, kb, out, pass, lock, task, durable, notify, view>>

\* Database.update_product(is_active=...), which no handler calls
set_active(product_id, active) ==
    /\ product_id \in DOMAIN db.products
    /\ db.products[product_id].is_active # active
    /\ db' = update_product(db, product_id, [is_active |-> active]).db
    /\ UNCHANGED <<now, fsm, data, kb, out, pass, lock, task, durable, notify, view>>

\* The database of InitialDb with a second product nobody ordered, MaxHistory
\* delivered orders of the shopper in all and one of the administrator
RECURSIVE Delivered(_, _, _)
Delivered(d, user_id, n) ==
    IF n = 0 THEN d
    ELSE LET r == create_order(d, [EarlierOrder EXCEPT !.user_id = user_id,
                                                       !.username = UsernameOf(user_id)])
         IN  Delivered(update_order_status(r.db, r.lastrowid, STATUS_DONE).db, user_id, n - 1)

HistoryDb ==
    LET d1 == add_product(InitialDb, 2, <<"P", "i", "o", "n">>, 2100000, TRUE, <<"7">>,
                          "photo-2").db
    IN  Delivered(Delivered(d1, 2, MaxHistory - 1), 1, 1)

\* The order ids pressed: an order of the shopper, the one of the
\* administrator, an id that stays missing
MissingOrder == MaxHistory + MaxOrders + 2

HistoryOrderIds == {MaxHistory - 1, MaxHistory + 1, MissingOrder}

InitStock ==
    /\ now = [day |-> 0, hour |-> 10]
    /\ db = HistoryDb
    /\ fsm = [u \in Users |-> S_NONE]
    /\ data = [u \in Users |-> EmptyData]
    /\ kb = [u \in Users |-> NoMarkup]
    /\ out = Unhandled
    /\ pass = [u \in Users |-> EmptyData]
    /\ lock = 0
    /\ task = <<>>
    /\ durable = HistoryDb
    /\ notify = <<>>
    /\ view = <<>>

\* The shortest way from the date menu to a confirmed order
Checkout(u) ==
    \/ date_selected(u, "tomorrow")
    \/ \E s \in SlotValues : time_selected(u, s)
    \/ address_text(u, T_LONG)
    \/ card_skip(u)
    \/ phone_contact(u, T_PHONE)
    \/ order_confirm(u, {})
    \/ cancel_order(u)

Browse(u) ==
    \/ \E p \in ProductIds : product_view(u, p, 1, 1)
    \/ \E p \in ProductIds : order_start(u, p, 1, 1)
    \/ \E o \in {MaxHistory - 1, MissingOrder} : order_details(u, o)
    \/ \E o \in {MaxHistory - 1, MissingOrder} : repeat_order_callback(u, o)

NextStock ==
    \/ \E p \in ProductIds : remove_product(p)
    \/ \E u \in Shoppers : Browse(u) \/ Checkout(u)
    \/ \E u \in Users : \/ admin_order_accept(u, MissingOrder, TRUE)
                         \/ admin_order_reject(u, MissingOrder, TRUE)

SpecStock == InitStock /\ [][NextStock]_vars

\* u was answered with the notice and nothing else changed
Noticed(u, notices) ==
    /\ out'.to = u
    /\ out'.answer \in notices
    /\ ~out'.raised
    /\ fsm' = fsm
    /\ data' = data
    /\ db' = db

\* C12: a step of product_view or order_start on a product id that is not
\* stored, of order_confirm when the product of the dialogue is no longer
\* stored, of order_details or repeat_order_callback on an order id that is not
\* stored, or of admin_order_accept or admin_order_reject on such an order id,
\* answers with a notice and leaves every user's state and data and the
\* database as they were; after such a Confirm the user is still in
\* waiting_for_confirmation.
C12_MissingIdOnlyNotice ==
    [][\A u \in Users :
          /\ \A p \in ProductIds :
                (p \notin DOMAIN db.products /\ (product_view(u, p, 1, 1) \/ order_start(u, p, 1, 1)))
                    => Noticed(u, {NOTICE_NO_PRODUCT})
          /\ ( /\ order_confirm(u, {})
               /\ Has(data[u], "product_id")
               /\ data[u].product_id \notin DOMAIN db.products )
                => Noticed(u, {NOTICE_NO_PRODUCT}) /\ fsm'[u] = S_CONFIRM
          /\ \A o \in HistoryOrderIds :
                (o \notin DOMAIN db.orders /\ (order_details(u, o) \/ repeat_order_callback(u, o)))
                    => Noticed(u, {NOTICE_NO_ORDER})
          /\ \A o \in HistoryOrderIds :
                ( /\ o \notin DOMAIN db.orders
                  /\ admin_order_accept(u, o, TRUE) \/ admin_order_reject(u, o, TRUE) )
                    => Noticed(u, {NOTICE_NO_ORDER, NOTICE_RIGHTS})]_vars

\* The shopper pressed Confirm on an order of the product that was deleted
\* after the order was started: the notice, still waiting for the
\* confirmation, no order added
C12_Witness ==
    \E u \in Shoppers :
        /\ out = Answer(u, NOTICE_NO_PRODUCT)
        /\ fsm[u] = S_CONFIRM
        /\ data[u].product_id = 2
        /\ pass[u].phone = T_PHONE
        /\ 2 \notin DOMAIN db.products
        /\ db.orders = HistoryDb.orders

Reorder(u) ==
    \/ repeat_order(u)
    \/ \E o \in HistoryOrderIds : repeat_order_callback(u, o)
    \/ order_start(u, 1, 1, 1)

NextRepeat ==
    \/ \E a \in BOOLEAN : set_active(1, a)
    \/ \E u \in Shoppers : Reorder(u) \/ Checkout(u)
    \/ \E u \in Users : \/ admin_order_accept(u, MaxHistory - 1, TRUE)
                         \/ admin_order_reject(u, MaxHistory - 1, TRUE)

SpecRepeat == InitStock /\ [][NextRepeat]_vars

\* C14: choosing a stored order in the repeat list opens the dialogue on that
\* order's product; the Confirm that ends a repeated order whose data the
\* dialogue still holds, the product being stored, active or not, adds one row
\* under an id no stored order has, with that product, and leaves the stored
\* orders as they were; the repeat list has at most 3 orders, each of the
\* caller and each delivered.
C14_RepeatCreatesNewOrder ==
    [][\A u \in Users :
          /\ \A o \in HistoryOrderIds :
                (repeat_order_callback(u, o) /\ o \in DOMAIN db.orders) =>
                    /\ fsm'[u] = S_DATE
                    /\ data'[u].product_id = db.orders[o].product_id
                    /\ pass'[u] = [seed |-> "repeat_order", repeated |-> db.orders[o].product_id]
          /\ ( /\ order_confirm(u, {})
               /\ Has(pass[u], "seed") /\ pass[u].seed = "repeat_order"
               /\ PassFields \cup {"product_id"} \subseteq DOMAIN data[u]
               /\ pass[u].repeated \in DOMAIN db.products ) =>
                    /\ NewOrders = {pass'[u].order_id}
                    /\ \A o \in NewOrders : /\ o \notin DOMAIN db.orders
                                            /\ db'.orders[o].product_id = pass[u].repeated
                                            /\ db'.orders[o].user_id = u
                    /\ \A o \in DOMAIN db.orders : db'.orders[o] = db.orders[o]
          /\ repeat_order(u) =>
                LET offered == get_last_completed_orders(db, u, RepeatLimit)
                IN  /\ Len(offered) <= 3
                    /\ \A i \in DOMAIN offered : /\ db.orders[offered[i]].user_id = u
                                                 /\ db.orders[offered[i]].status = STATUS_DONE]_vars

\* The shopper, who has more than three delivered orders, repeated one of
\* them while its product was inactive: the new row has that product
C14_Witness ==
    \E u \in Shoppers :
        /\ Confirmed(u)
        /\ pass[u].seed = "repeat_order"
        /\ pass[u].order_id = MaxHistory + 2
        /\ db.orders[pass[u].order_id].product_id = 1
        /\ ~db.products[1].is_active
        /\ Cardinality({o \in DOMAIN db.orders : /\ db.orders[o].user_id = u
                                                 /\ db.orders[o].status = STATUS_DONE}) > 3
        /\ Len(get_last_completed_orders(db, u, RepeatLimit)) = 3

(***************************************************************************)
(* user.py: support.  start_polling handles every update in a task of its  *)
(* own (handle_as_tasks), and no events isolation is configured: a handler *)
(* that awaits lets the handlers of later updates start.  A run of         *)
(* receive_support_message is therefore one step per await:                *)
(*     dispatch   the filter reads the state; the handler is entered       *)
(*     save       await db.save_support_message(...)                       *)
(*     tell       await notify_admins(...); await message.answer(...)      *)
(*     clear      await state.clear()                                      *)
(* `task` holds the runs in progress, oldest first.                        *)
(***************************************************************************)
MaxInvocations == 2     \* times a user may press "contact florist"
MaxInFlight == 2        \* runs of receive_support_message in progress at once

support_menu_kb ==
    << << <<"contact_florist">> >>, << <<"delivery_info">> >>, << <<"payment_info">> >>,
       << <<"working_hours">> >>, << <<"main_menu">> >> >>

SupportEvents == {Text(T_SHORT), Text(LBL_SHOP)}

Invocations(u) == IF Has(pass[u], "invocations") THEN pass[u].invocations ELSE 0

\* "contact_florist"
contact_florist(u) ==
    /\ Route(fsm[u], Callback(<<"contact_florist">>)) = "contact_florist"
    /\ Invocations(u) < MaxInvocations
    /\ fsm' = Set(fsm, u, S_SUPPORT)
    /\ pass' = Set(pass, u, update_data(pass[u], [invocations |-> Invocations(u) + 1]))
    /\ kb' = Set(kb, u, NoMarkup)
    /\ out' = Answer(u, "")
    /\ UNCHANGED <<db, data>> /\ Frame

Running == UNCHANGED <<now, lock, durable, notify, view>>

\* The dispatcher gives a message to receive_support_message: the state read
\* is waiting_for_message.  text = message.text or ""
support_dispatch(u, ev) ==
    /\ Route(fsm[u], ev) = "receive_support_message"
    /\ Len(task) < MaxInFlight
    /\ task' = Append(task, [user |-> u, pc |-> "save",
                             text |-> IF ev.kind = "text" THEN ev.text ELSE <<>>])
    /\ UNCHANGED <<db, fsm, data, kb, out, pass>> /\ Running

support_save(i) ==
    /\ i \in DOMAIN task
    /\ task[i].pc = "save"
    /\ db' = save_support_message(db, task[i].user, UsernameOf(task[i].user), task[i].text).db
    /\ task' = [task EXCEPT ![i].pc = "tell"]
    /\ UNCHANGED <<fsm, data, kb, out, pass>> /\ Running

support_tell(i) ==
    /\ i \in DOMAIN task
    /\ task[i].pc = "tell"
    /\ out' = [to |-> task[i].user, answer |-> "",
               sent |-> notify_admins(admin_ids, {}).attempts, raised |-> FALSE]
    /\ kb' = Set(kb, task[i].user, NoMarkup)
    /\ task' = [task EXCEPT ![i].pc = "clear"]
    /\ UNCHANGED <<db, fsm, data, pass>> /\ Running

support_clear(i) ==
    /\ i \in DOMAIN task
    /\ task[i].pc = "clear"
    /\ fsm' = Set(fsm, task[i].user, S_NONE)
    /\ data' = Set(data, task[i].user, EmptyData)
    /\ task' = SubSeq(task, 1, i - 1) \o SubSeq(task, i + 1, Len(task))
    /\ UNCHANGED <<db, kb, out, pass>> /\ Running

(***************************************************************************)
(* SpecSupport: a user asks the florist and writes, at times twice in a row *)
(***************************************************************************)
NextSupport ==
    \/ \E u \in Shoppers : contact_florist(u)
    \/ \E u \in Shoppers, ev \in SupportEvents : support_dispatch(u, ev)
    \/ \E i \in 1..MaxInFlight : support_save(i) \/ support_tell(i) \/ support_clear(i)

SpecSupport == Init /\ [][NextSupport]_vars

SupportMessagesOf(u) == {m \in DOMAIN db.support_messages : db.support_messages[m].user_id = u}

\* C13: no user has more support messages stored than the number of times
\* the user pressed "contact florist".
C13_OneMessagePerInvocation ==
    \A u \in Users : Cardinality(SupportMessagesOf(u)) <= Invocations(u)

(***************************************************************************)
(* SpecChat: the bot started on a database that holds the catalog and no   *)
(* order; everything that follows comes through the chat handlers.  Both   *)
(* users order, the administrator among them, and orders are moderated.    *)
(***************************************************************************)
FreshDb ==
    add_product(create_schema, 1, <<"R", "o", "z", "y">>, InitialPrice, FALSE, <<"2", "5">>,
                "photo-1").db

InitChat ==
    /\ now = [day |-> 0, hour |-> 10]
    /\ db = FreshDb
    /\ fsm = [u \in Users |-> S_NONE]
    /\ data = [u \in Users |-> EmptyData]
    /\ kb = [u \in Users |-> NoMarkup]
    /\ out = Unhandled
    /\ pass = [u \in Users |-> EmptyData]
    /\ lock = 0
    /\ task = <<>>
    /\ durable = FreshDb
    /\ notify = <<>>
    /\ view = <<>>

\* One update of user u: the shopper orders and asks to repeat, the
\* administrator opens an order of their own and moderates
Update(u) ==
    \/ order_start(u, 1, 1, 1)
    \/ date_selected(u, "tomorrow")
    \/ /\ u \in Shoppers
       /\ \/ \E s \in SlotValues : time_selected(u, s)
          \/ address_text(u, T_LONG)
          \/ card_skip(u)
          \/ phone_contact(u, T_PHONE)
          \/ order_confirm(u, {})
          \/ repeat_order(u)
          \/ \E o \in OrderIds : repeat_order_callback(u, o)
    \/ Moderation(u)

NextChat == \E u \in Users : Update(u)

SpecChat == InitChat /\ [][NextChat]_vars

\* C15: every stored order is new, in work or cancelled, none is delivered;
\* the repeat list of every user is empty and the repeat entry point answers
\* that there is nothing to repeat; the status of a stored order changes only
\* in a step of admin_order_accept or admin_order_reject by an administrator.
C15_NeverCompleted ==
    /\ [](\A o \in DOMAIN db.orders :
            db.orders[o].status \in {STATUS_NEW, STATUS_IN_WORK, STATUS_CANCELLED})
    /\ [](\A u \in Users : get_last_completed_orders(db, u, RepeatLimit) = <<>>)
    /\ [][/\ \A u \in Users :
               repeat_order(u) => out' = Answer(u, NOTICE_NO_COMPLETED) /\ data' = data
          /\ \A o \in DOMAIN db.orders :
               (o \in DOMAIN db'.orders /\ db'.orders[o].status # db.orders[o].status) =>
                   \E u \in Users, ok \in BOOLEAN :
                       /\ is_admin(u)
                       /\ \/ admin_order_accept(u, o, ok) /\ db'.orders[o].status = STATUS_IN_WORK
                          \/ admin_order_reject(u, o, ok)
                                 /\ db'.orders[o].status = STATUS_CANCELLED]_vars

\* The shopper's order went through accept and reject, and the shopper, asking
\* to repeat an order, is told there is none
C15_Witness ==
    \E u \in Shoppers :
        /\ Confirmed(u)
        /\ db.orders[pass[u].order_id].status = STATUS_CANCELLED
        /\ out = Answer(u, NOTICE_NO_COMPLETED)

\* C18: a step that handles an update of one user leaves the state and the
\* data of every other user as they were.
C18_UsersIsolated ==
    [][\A u \in Users :
          Update(u) => \A v \in Users \ {u} : fsm'[v] = fsm[v] /\ data'[v] = data[v]]_vars

\* The administrator accepted the shopper's order while the shopper was in
\* the middle of another dialogue, which is where it was
C18_Witness ==
    \E a \in Users, u \in Shoppers :
        /\ is_admin(a)
        /\ out.to = a /\ out.answer = NOTICE_STATUS
        /\ \E o \in DOMAIN db.orders :
               db.orders[o].user_id = u /\ db.orders[o].status = STATUS_IN_WORK
        /\ fsm[u] = S_ADDRESS
        /\ Has(data[u], "delivery_time")
        /\ fsm[a] = S_TIME
        /\ Has(data[a], "delivery_date")
        /\ data[a] # data[u]

(***************************************************************************)
(* SpecCatalog: the paginated product list of a category (catalog.py).     *)
(* Products are listed newest first; rows created in the same second have  *)
(* no defined order, the model lists them by descending id.                *)
(***************************************************************************)
PAGE_SIZE == 5
MaxProducts == 12       \* active products of the listed category

max(a, b) == IF a >= b THEN a ELSE b

min(a, b) == IF a <= b THEN a ELSE b

\* math.ceil(a / b) for a >= 0, b > 0
ceil(a, b) == (a + b - 1) \div b

\* WHERE category_id = ? AND is_active = 1
ActiveIn(d, category_id) ==
    {p \in DOMAIN d.products :
        d.products[p].category_id = category_id /\ d.products[p].is_active}

count_products_in_category(d, category_id) == Cardinality(ActiveIn(d, category_id))

\* ... ORDER BY created_at DESC LIMIT ? OFFSET ?  (a negative OFFSET skips
\* nothing)
get_products_by_category(d, category_id, limit, offset) ==
    LET ids == ActiveIn(d, category_id)
        rows == Newest(ids, Cardinality(ids))
        skip == max(0, offset)
        shown == max(0, min(limit, Len(rows) - skip))
    IN  [i \in 1..shown |-> d.products[rows[skip + i]]]

\* The navigation row with its "next page" button on every page
products_navigation_kb_open(category_id, page, has_prev, has_next) ==
    LET row == (IF has_prev THEN << <<"prev_page", category_id, page - 1>> >> ELSE <<>>)
               \o << <<"next_page", category_id, page + 1>> >>
    IN  <<row>> \o << << <<"back_to_categories">>, <<"main_menu">> >> >>

products_navigation_kb(category_id, page, has_prev, has_next) ==
    LET row == (IF has_prev THEN << <<"prev_page", category_id, page - 1>> >> ELSE <<>>)
               \o (IF has_next THEN << <<"next_page", category_id, page + 1>> >> ELSE <<>>)
    IN  (IF row # <<>> THEN <<row>> ELSE <<>>)
        \o << << <<"back_to_categories">>, <<"main_menu">> >> >>

product_list_action_kb(product_id, category_id, page) ==
    << << <<"product_view", product_id, category_id, page>> >> >>

\* The listing sent for the callback `query`: the header's page and total,
\* one card per product, then the navigation
Listing(u, query, category_id, page, total_pages, products) ==
    /\ view' = <<[to |-> u, query |-> query, category_id |-> category_id, page |-> page,
                  total_pages |-> total_pages,
                  products |-> [i \in DOMAIN products |-> products[i].id],
                  cards |-> [i \in DOMAIN products |->
                                product_list_action_kb(products[i].id, category_id, page)]]>>
    /\ kb' = Set(kb, u, products_navigation_kb(category_id, page, page > 1,
                                               page < total_pages))
    /\ out' = Answer(u, "")

\* send_products_page showing the page it was asked for
send_products_page_unclamped(u, query, category_id, page) ==
    LET total_products == count_products_in_category(db, category_id)
        total_pages == max(1, ceil(total_products, PAGE_SIZE))
        offset == (page - 1) * PAGE_SIZE
        products == get_products_by_category(db, category_id, PAGE_SIZE, offset)
    IN  Listing(u, query, category_id, page, total_pages, products)

send_products_page(u, query, category_id, page) ==
    LET total_products == count_products_in_category(db, category_id)
        total_pages == max(1, ceil(total_products, PAGE_SIZE))
        clamped == min(max(1, page), total_pages)
        offset == (clamped - 1) * PAGE_SIZE
        products == get_products_by_category(db, category_id, PAGE_SIZE, offset)
    IN  Listing(u, query, category_id, clamped, total_pages, products)

Listed == UNCHANGED <<now, db, fsm, data, pass, lock, task, durable, notify>>

\* "category:<id>"
open_category(u, category_id) ==
    /\ Route(fsm[u], Callback(<<"category", category_id>>)) = "open_category"
    /\ send_products_page(u, <<"category", category_id>>, category_id, 1)
    /\ Listed

\* "next_page:<category>:<page>" and "prev_page:<category>:<page>"
paginate_products(u, word, category_id, page) ==
    /\ Route(fsm[u], Callback(<<word, category_id, page>>)) = "paginate_products"
    /\ send_products_page(u, <<word, category_id, page>>, category_id, page)
    /\ Listed

\* "back_to_products:<category>:<page>"
back_to_products(u, category_id, page) ==
    /\ Route(fsm[u], Callback(<<"back_to_products", category_id, page>>)) = "back_to_products"
    /\ send_products_page(u, <<"back_to_products", category_id, page>>, category_id, page)
    /\ Listed

\* The catalog after n products were saved in category 1; of the first
\* `hidden` of them is_active was set to 0; one product is in category 2
RECURSIVE Stocked(_, _)
Stocked(n, hidden) ==
    IF n = 0
    THEN add_product(create_schema, 2, <<"P", "i", "o", "n">>, 2100000, TRUE, <<"7">>,
                     "photo-2").db
    ELSE LET added == add_product(Stocked(n - 1, hidden), 1, <<"R", "o", "z", "y">>,
                                  InitialPrice, FALSE, <<"2", "5">>, "photo-1")
         IN  IF n <= hidden
             THEN update_product(added.db, added.lastrowid, [is_active |-> FALSE]).db
             ELSE added.db

Hidden == {0, 1}
Pages == {-1, 0, 1, 2, 3, 4, 99}
ListedCategories == {1, 2}

InitCatalog ==
    /\ now = [day |-> 0, hour |-> 10]
    /\ db \in {Stocked(n + h, h) : n \in 0..MaxProducts, h \in Hidden}
    /\ fsm = [u \in Users |-> S_NONE]
    /\ data = [u \in Users |-> EmptyData]
    /\ kb = [u \in Users |-> NoMarkup]
    /\ out = Unhandled
    /\ pass = [u \in Users |-> EmptyData]
    /\ lock = 0
    /\ task = <<>>
    /\ durable = db
    /\ notify = <<>>
    /\ view = <<>>

NextCatalog ==
    \E u \in Shoppers, c \in ListedCategories :
        \/ open_category(u, c)
        \/ \E p \in Pages : paginate_products(u, "next_page", c, p)
        \/ \E p \in Pages : paginate_products(u, "prev_page", c, p)
        \/ \E p \in Pages : back_to_products(u, c, p)

SpecCatalog == InitCatalog /\ [][NextCatalog]_vars

\* The number of pages of n products: 1 for none, else the least number of
\* pages of PAGE_SIZE that hold them
TotalPages(n) ==
    CHOOSE t \in 1..(n + 1) : PAGE_SIZE * t >= n /\ (t = 1 \/ PAGE_SIZE * (t - 1) < n)

\* The listing of category c asked at page p is the one the rule gives
Paged(c, p) ==
    LET n == Cardinality(ActiveIn(db, c))
        T == TotalPages(n)
        page == IF p < 1 THEN 1 ELSE IF p > T THEN T ELSE p
        left == n - PAGE_SIZE * (page - 1)
        shown == view'[1].products
    IN  /\ view'[1].category_id = c
        /\ view'[1].total_pages = T
        /\ view'[1].page = page
        /\ Len(shown) = (IF n = 0 THEN 0 ELSE IF left < PAGE_SIZE THEN left ELSE PAGE_SIZE)
        /\ \A i \in DOMAIN shown : shown[i] \in ActiveIn(db, c)
        /\ \A i, j \in DOMAIN shown : i # j => shown[i] # shown[j]

\* C16: for a category with n active products and a requested page p, below
\* 1 and beyond the last page included, the page rendered is min(max(1, p), T)
\* with T = max(1, ceil(n / 5)); it shows min(5, n - 5 * (page - 1)) distinct
\* active products of the category when n > 0 and none when n = 0.
C16_PageClamped ==
    [][\A u \in Shoppers, c \in ListedCategories :
          /\ open_category(u, c) => Paged(c, 1)
          /\ \A p \in Pages :
               (\/ paginate_products(u, "next_page", c, p)
                \/ paginate_products(u, "prev_page", c, p)
                \/ back_to_products(u, c, p)) => Paged(c, p)]_vars

\* Twelve active products: page 99 was asked and the third and last page is
\* shown with two products
C16_Witness ==
    /\ Cardinality(ActiveIn(db, 1)) = 12
    /\ view # <<>>
    /\ view[1].query = <<"next_page", 1, 99>>
    /\ view[1].page = 3 /\ view[1].total_pages = 3
    /\ Len(view[1].products) = 2

(***************************************************************************)
(* SpecCascade: callers of the storage layer that add products to          *)
(* categories, order product 1 and delete categories.  The database the    *)
(* bot started with holds product 1 in category 1 and an order for it.     *)
(***************************************************************************)
CascadeOps(c) ==
    {[kind |-> "delete_category", category_id |-> 1],
     [kind |-> "delete_category", category_id |-> 2],
     [kind |-> "add_product", category_id |-> 2],
     [kind |-> "create_order", user_id |-> c],
     [kind |-> "update_order_status", order_id |-> 1]}

InitCascade ==
    /\ now = [day |-> 0, hour |-> 10]
    /\ db = InitialDb
    /\ durable = InitialDb
    /\ lock = 0
    /\ task \in [Callers -> {[pc |-> "call", op |-> o, lastrowid |-> 0, raised |-> FALSE] :
                                o \in UNION {CascadeOps(c) : c \in Callers}}]
    /\ \A c \in Callers : task[c].op \in CascadeOps(c)
    /\ fsm = [u \in Users |-> S_NONE]
    /\ data = [u \in Users |-> EmptyData]
    /\ kb = [u \in Users |-> NoMarkup]
    /\ out = Unhandled
    /\ pass = [u \in Users |-> EmptyData]
    /\ notify = <<>>
    /\ view = <<>>

SpecCascade == InitCascade /\ [][NextDb]_vars

\* The products of a category
Owned(d, category_id) ==
    {p \in DOMAIN d.products : d.products[p].category_id = category_id}

\* C17: the statement of delete_category on a category that owns products
\* does not raise, and after it the category and its products are gone and
\* no product refers to a category that is not stored.
C17_CategoryDeletionCascades ==
    [][\A c \in Callers :
          (/\ execute(c)
           /\ task[c].op.kind = "delete_category"
           /\ Owned(db, task[c].op.category_id) # {}) =>
              /\ ~task'[c].raised
              /\ task[c].op.category_id \notin DOMAIN db'.categories
              /\ Owned(db, task[c].op.category_id) \cap DOMAIN db'.products = {}
              /\ \A p \in DOMAIN db'.products :
                     db'.products[p].category_id \in DOMAIN db'.categories]_vars

\* C19: a user in a state of the order dialogue leaves the order dialogue,
\* the state cleared or replaced by a state of another flow, only in a step
\* of cancel_order or in a step of order_confirm that stored the order.
C19_LeavesByCancelOrConfirm ==
    [][\A u \in Users :
          (fsm[u] \in OrderStates /\ fsm'[u] \notin OrderStates) =>
              \/ cancel_order(u)
              \/ \E fails \in SUBSET (DOMAIN admin_ids) :
                     order_confirm(u, fails) /\ db'.seq.orders = db.seq.orders + 1]_vars

(***************************************************************************)
(* The handlers as they are registered: register_handlers includes         *)
(* user_router, catalog_router, orders_router, admin_router in this order; *)
(* inside a router the decorators register from the top of the file down.  *)
(* Each entry holds its own filters only: the observer (`on`), the state   *)
(* filter ("*": none) and the magic filter (`f` with its argument).        *)
(***************************************************************************)
H(name, on, state, f, arg) == [name |-> name, on |-> on, state |-> state, f |-> f, arg |-> arg]

user_router ==
    <<H("cmd_start", "message", "*", "command", CMD_START),
      H("cmd_menu", "message", "*", "command", CMD_MENU),
      H("support_entry", "message", "*", "text_is", LBL_SUPPORT),
      H("delivery_info", "callback_query", "*", "data_is", <<"delivery_info">>),
      H("payment_info", "callback_query", "*", "data_is", <<"payment_info">>),
      H("working_hours", "callback_query", "*", "data_is", <<"working_hours">>),
      H("contact_florist", "callback_query", "*", "data_is", <<"contact_florist">>),
      H("receive_support_message", "message", S_SUPPORT, "any", <<>>),
      H("back_to_main_menu", "callback_query", "*", "data_is", <<"main_menu">>)>>

catalog_router ==
    <<H("show_categories", "message", "*", "text_is", LBL_SHOP),
      H("cb_back_to_categories", "callback_query", "*", "data_is", <<"back_to_categories">>),
      H("open_category", "callback_query", "*", "data_starts", {<<"category">>}),
      H("paginate_products", "callback_query", "*", "data_starts",
        {<<"next_page">>, <<"prev_page">>}),
      H("back_to_products", "callback_query", "*", "data_starts", {<<"back_to_products">>}),
      H("product_view", "callback_query", "*", "data_starts", {<<"product_view">>}),
      H("order_start", "callback_query", "*", "data_starts", {<<"order_start">>}),
      H("to_main_menu", "callback_query", "*", "data_is", <<"main_menu">>)>>

orders_router ==
    <<H("show_orders", "message", "*", "text_is", LBL_ORDERS),
      H("order_details", "callback_query", "*", "data_starts", {<<"order_details">>}),
      H("repeat_order", "message", "*", "text_is", LBL_REPEAT),
      H("repeat_order_callback", "callback_query", "*", "data_starts", {<<"repeat_order">>}),
      H("date_selected", "callback_query", S_DATE, "data_starts", {<<"date_selected">>}),
      H("time_selected", "callback_query", S_TIME, "data_starts", {<<"time_selected">>}),
      H("back_to_date", "callback_query", S_TIME, "data_is", <<"back_to_date">>),
      H("cancel_order", "callback_query", "*", "data_is", <<"order_cancel">>),
      H("address_location", "message", S_ADDRESS, "has", "location"),
      H("address_text", "message", S_ADDRESS, "has", "text"),
      H("card_write", "callback_query", S_CARD, "data_is", <<"card_write">>),
      H("card_skip", "callback_query", S_CARD, "data_is", <<"card_skip">>),
      H("card_back", "callback_query", S_CARD, "data_is", <<"card_back">>),
      H("card_text", "message", S_CARD, "has", "text"),
      H("phone_contact", "message", S_PHONE, "has", "contact"),
      H("phone_text", "message", S_PHONE, "has", "text"),
      H("order_edit", "callback_query", S_CONFIRM, "data_is", <<"order_edit">>),
      H("order_confirm", "callback_query", S_CONFIRM, "data_is", <<"order_confirm">>),
      H("admin_order_accept", "callback_query", "*", "data_starts", {<<"admin_order_accept">>}),
      H("admin_order_reject", "callback_query", "*", "data_starts", {<<"admin_order_reject">>})>>

admin_router ==
    <<H("admin_entry", "message", "*", "command", CMD_ADMIN),
      H("admin_back", "callback_query", "*", "data_is", <<"admin", "back">>),
      H("admin_add_product_start", "callback_query", "*", "data_is", <<"admin", "add_product">>),
      H("admin_add_photo", "message", A_PHOTO, "has", "photo"),
      H("admin_add_name", "message", A_NAME, "has", "text"),
      H("admin_add_category_selected", "callback_query", A_CATEGORY, "data_starts",
        {<<"admin", "category">>}),
      H("admin_add_price", "message", A_PRICE, "has", "text"),
      H("admin_add_description", "message", A_DESCRIPTION, "has", "text"),
      H("admin_save_product", "callback_query", A_CONFIRM, "data_is",
        <<"admin", "product_save">>),
      H("admin_cancel_add", "callback_query", A_CONFIRM, "data_is", <<"admin", "cancel_add">>),
      H("admin_categories", "callback_query", "*", "data_is", <<"admin", "categories">>),
      H("admin_add_category", "callback_query", C_ACTION, "data_is",
        <<"admin", "add_category">>),
      H("admin_category_name", "message", C_NAME, "has", "text")>>

register_handlers == user_router \o catalog_router \o orders_router \o admin_router

\* cb.data, kept split at ":", starts with the words of pfx and a ":"
DataStarts(d, pfx) == Len(d) > Len(pfx) /\ \A i \in 1..Len(pfx) : d[i] = pfx[i]

\* The filters of one handler pass for the event in the state
Matches(h, state, ev) ==
    /\ h.on = (IF ev.kind = "callback" THEN "callback_query" ELSE "message")
    /\ h.state \in {"*", state}
    /\ CASE h.f = "any" -> TRUE
         [] h.f = "command" -> ev.kind = "text" /\ IsCommand(ev.text, h.arg)
         [] h.f = "text_is" -> ev.kind = "text" /\ ev.text = h.arg
         [] h.f = "has" -> ev.kind = h.arg
         [] h.f = "data_is" -> Len(ev.data) = Len(h.arg) /\ DataStarts(ev.data \o <<"">>, h.arg)
         [] h.f = "data_starts" -> \E pfx \in h.arg : DataStarts(ev.data, pfx)

\* The first registered handler whose filters pass
FirstMatch(state, ev) ==
    LET passing == {i \in DOMAIN register_handlers : Matches(register_handlers[i], state, ev)}
    IN  IF passing = {} THEN "unhandled"
        ELSE register_handlers[CHOOSE i \in passing : \A j \in passing : i <= j].name

categories_kb(d) ==
    LET ids == DOMAIN d.categories
        rows == Newest(ids, Cardinality(ids))
    IN  [i \in 1..Len(rows) |-> << <<"category", rows[Len(rows) + 1 - i]>> >>]
        \o << << <<"main_menu">> >> >>

\* SELECT ... FROM orders WHERE user_id = ? ORDER BY created_at DESC LIMIT ?
get_user_orders(d, user_id, limit) ==
    LET ids == Newest({o \in DOMAIN d.orders : d.orders[o].user_id = user_id}, limit)
    IN  [i \in DOMAIN ids |-> d.orders[ids[i]]]

UserOrdersLimit == 10

\* the support label
support_entry(u) ==
    /\ Route(fsm[u], Text(LBL_SUPPORT)) = "support_entry"
    /\ kb' = Set(kb, u, support_menu_kb)
    /\ out' = Answer(u, "")
    /\ UNCHANGED <<db, fsm, data, pass>> /\ Frame

\* "main_menu", user_router
back_to_main_menu(u) ==
    /\ Route(fsm[u], Callback(<<"main_menu">>)) = "back_to_main_menu"
    /\ kb' = Set(kb, u, main_menu_kb)
    /\ out' = Answer(u, "")
    /\ UNCHANGED <<db, fsm, data, pass>> /\ Frame

\* "main_menu", catalog_router
to_main_menu(u) ==
    /\ Route(fsm[u], Callback(<<"main_menu">>)) = "to_main_menu"
    /\ kb' = Set(kb, u, main_menu_kb)
    /\ out' = Answer(u, "")
    /\ UNCHANGED <<db, fsm, data, pass>> /\ Frame

\* the shop label
show_categories(u) ==
    /\ Route(fsm[u], Text(LBL_SHOP)) = "show_categories"
    /\ kb' = Set(kb, u, categories_kb(db))
    /\ out' = Answer(u, "")
    /\ UNCHANGED <<db, fsm, data, pass>> /\ Frame

\* the orders label: one message per order, then the main menu
show_orders(u) ==
    /\ Route(fsm[u], Text(LBL_ORDERS)) = "show_orders"
    /\ LET orders == get_user_orders(db, u, UserOrdersLimit)
       IN  /\ kb' = Set(kb, u, IF orders = <<>> THEN NoMarkup ELSE main_menu_kb)
           /\ view' = <<[to |-> u,
                         cards |-> [i \in DOMAIN orders |-> orders_list_nav_kb(orders[i].id)]]>>
    /\ out' = Answer(u, "")
    /\ UNCHANGED <<db, fsm, data, pass, now, lock, task, durable, notify>>

(***************************************************************************)
(* SpecRoute: a shopper sends menu labels and commands in the middle of    *)
(* the order dialogue and of a question to the florist                     *)
(***************************************************************************)
RouteTexts == {T_LONG, LBL_SHOP, LBL_ORDERS, LBL_REPEAT, LBL_SUPPORT, CMD_START}

RouteEvents ==
    {Text(t) : t \in RouteTexts}
        \cup {Callback(<<w>>) : w \in {"main_menu", "contact_florist", "order_cancel"}}
        \cup {Callback(<<"order_start", 1, 1, 1>>), Callback(<<"date_selected", "tomorrow">>)}
        \cup {Callback(<<"time_selected", s>>) : s \in SlotValues}

\* What the shopper sends
Sending(u) ==
    \/ cmd_start(u)
    \/ support_entry(u)
    \/ contact_florist(u)
    \/ db.seq.support_messages < MaxInvocations /\ support_dispatch(u, Text(LBL_SHOP))
    \/ back_to_main_menu(u)
    \/ show_categories(u)
    \/ show_orders(u)
    \/ repeat_order(u)
    \/ order_start(u, 1, 1, 1)
    \/ date_selected(u, "tomorrow")
    \/ \E s \in SlotValues : time_selected(u, s)
    \/ cancel_order(u)
    \/ \E t \in RouteTexts : address_text(u, t)
    \/ \E t \in RouteTexts : card_text(u, t)
    \/ \E t \in RouteTexts : phone_text(u, t)

NextRoute ==
    \/ \E u \in Shoppers : Sending(u)
    \/ \E i \in 1..MaxInFlight : support_save(i) \/ support_tell(i) \/ support_clear(i)

SpecRoute == Init /\ [][NextRoute]_vars

\* The handler that takes an event of user u in this step is the first match
Taken(u) ==
    LET first(ev) == FirstMatch(fsm[u], ev)
    IN  /\ cmd_start(u) => first(Text(CMD_START)) = "cmd_start"
        /\ support_entry(u) => first(Text(LBL_SUPPORT)) = "support_entry"
        /\ contact_florist(u) => first(Callback(<<"contact_florist">>)) = "contact_florist"
        /\ \A ev \in RouteEvents :
              support_dispatch(u, ev) => first(ev) = "receive_support_message"
        /\ back_to_main_menu(u) => first(Callback(<<"main_menu">>)) = "back_to_main_menu"
        /\ to_main_menu(u) => first(Callback(<<"main_menu">>)) = "to_main_menu"
        /\ show_categories(u) => first(Text(LBL_SHOP)) = "show_categories"
        /\ show_orders(u) => first(Text(LBL_ORDERS)) = "show_orders"
        /\ repeat_order(u) => first(Text(LBL_REPEAT)) = "repeat_order"
        /\ order_start(u, 1, 1, 1) => first(Callback(<<"order_start", 1, 1, 1>>)) = "order_start"
        /\ date_selected(u, "tomorrow") =>
              first(Callback(<<"date_selected", "tomorrow">>)) = "date_selected"
        /\ \A s \in SlotValues :
              time_selected(u, s) => first(Callback(<<"time_selected", s>>)) = "time_selected"
        /\ cancel_order(u) => first(Callback(<<"order_cancel">>)) = "cancel_order"
        /\ \A t \in RouteTexts :
              /\ address_text(u, t) => first(Text(t)) = "address_text"
              /\ card_text(u, t) => first(Text(t)) = "card_text"
              /\ phone_text(u, t) => first(Text(t)) = "phone_text"

\* C20: an event is taken by at most one handler, the first registered one
\* whose filters pass (user, catalog, orders, admin router; registration
\* order inside a router).  A main-menu label sent in a state that waits for
\* free text goes to the label's handler, and in the support state the shop
\* label goes to receive_support_message, not to the catalog.
C20_FirstMatchHandles ==
    /\ [](\A u \in Shoppers :
            /\ \A ev \in RouteEvents : Route(fsm[u], ev) = FirstMatch(fsm[u], ev)
            /\ fsm[u] \in {S_ADDRESS, S_CARD, S_PHONE} =>
                  /\ FirstMatch(fsm[u], Text(LBL_SHOP)) = "show_categories"
                  /\ FirstMatch(fsm[u], Text(LBL_ORDERS)) = "show_orders"
                  /\ FirstMatch(fsm[u], Text(LBL_REPEAT)) = "repeat_order"
                  /\ FirstMatch(fsm[u], Text(LBL_SUPPORT)) = "support_entry"
            /\ fsm[u] = S_SUPPORT =>
                  FirstMatch(fsm[u], Text(LBL_SHOP)) = "receive_support_message")
    /\ [][\A u \in Shoppers : Taken(u)]_vars

\* The shop label sent as a question to the florist was stored as the
\* question; sent later while the address was awaited, it opened the catalog
C20_Witness ==
    \E u \in Shoppers :
        /\ \E m \in DOMAIN db.support_messages :
              db.support_messages[m].user_id = u /\ db.support_messages[m].text = LBL_SHOP
        /\ fsm[u] = S_ADDRESS
        /\ kb[u] = categories_kb(db)

(***************************************************************************)
(* SpecStore: one caller uses a Database object: connect, close and the    *)
(* operations, in any order.  `db` is the file, which outlives the         *)
(* connection; task[1] tells whether self._conn is set and whether the     *)
(* tables were created; `out` holds what the last call raised.             *)
(***************************************************************************)
MaxSeeds == 2           \* times the default categories may be seeded

NOT_INITIALIZED == "RuntimeError: Database connection is not initialized"
ATTRIBUTE_ERROR == "AttributeError: 'NoneType' object has no attribute 'execute'"
INTEGRITY_ERROR == "sqlite3.IntegrityError"

Returned == [to |-> 0, answer |-> "", sent |-> <<>>, raised |-> FALSE]

Failure(error) == [to |-> 0, answer |-> error, sent |-> <<>>, raised |-> TRUE]

\* create_schema that seeds the defaults whatever the table holds
seed_always(d) == SeedCategories(d, 1)

\* Database.create_schema on a connection: the tables are created if absent,
\* the defaults are added if get_categories returns no row
Database_create_schema(d) ==
    IF DOMAIN d.categories = {} THEN SeedCategories(d, 1) ELSE d

\* The operations called: reads give the database back
StoreOps ==
    {[kind |-> "add_category", name |-> n] : n \in {"Rozy", "Piony"}}
        \cup {[kind |-> "rename_category", category_id |-> 1, new_name |-> n] :
                 n \in {"Sezonnye", "Piony"}}
        \cup {[kind |-> "delete_category", category_id |-> c] : c \in 1..Len(DefaultCategories)}
        \cup {[kind |-> "add_product", category_id |-> c] : c \in {1, 99}}
        \cup {[kind |-> "update_product", product_id |-> 1, fields |-> f] :
                 f \in {EmptyData, [category_id |-> 2], [category_id |-> 99]}}
        \cup {[kind |-> "delete_product", product_id |-> 1],
              [kind |-> "create_order", product_id |-> 1],
              [kind |-> "get_categories"],
              [kind |-> "get_product", product_id |-> 1]}

IsRead(op) == op.kind \in {"get_categories", "get_product"}

\* What the statement of op does to the database d
Statement(d, op) ==
    CASE op.kind = "add_category" -> add_category(d, op.name)
      [] op.kind = "rename_category" -> rename_category(d, op.category_id, op.new_name)
      [] op.kind = "delete_category" -> delete_category(d, op.category_id)
      [] op.kind = "add_product" ->
            add_product(d, op.category_id, <<"R", "o", "z", "y">>, InitialPrice, FALSE,
                        <<"2", "5">>, "photo-1")
      [] op.kind = "update_product" -> update_product(d, op.product_id, op.fields)
      [] op.kind = "delete_product" -> delete_product(d, op.product_id)
      [] op.kind = "create_order" -> create_order(d, EarlierOrder)
      [] IsRead(op) -> Done(d, 0)

InitStore ==
    /\ now = [day |-> 0, hour |-> 10]
    /\ db = EmptyDb
    /\ durable = EmptyDb
    /\ lock = 0
    /\ task = <<[conn |-> FALSE, schema |-> FALSE]>>
    /\ fsm = [u \in Users |-> S_NONE]
    /\ data = [u \in Users |-> EmptyData]
    /\ kb = [u \in Users |-> NoMarkup]
    /\ out = Unhandled
    /\ pass = [u \in Users |-> EmptyData]
    /\ notify = <<>>
    /\ view = <<>>

Stored == UNCHANGED <<now, fsm, data, kb, pass, lock, durable, notify, view>>

\* Database.connect
connect ==
    /\ task' = <<[task[1] EXCEPT !.conn = TRUE]>>
    /\ out' = Returned
    /\ UNCHANGED db /\ Stored

\* Database.close
close ==
    /\ task' = <<[task[1] EXCEPT !.conn = FALSE]>>
    /\ out' = Returned
    /\ UNCHANGED db /\ Stored

\* await db.create_schema()
call_create_schema ==
    /\ IF ~task[1].conn
       THEN /\ out' = Failure(NOT_INITIALIZED)
            /\ UNCHANGED <<db, task>>
       ELSE /\ DOMAIN db.categories = {} => db.seq.categories < Len(DefaultCategories) * MaxSeeds
            /\ db' = Database_create_schema(db)
            /\ task' = <<[task[1] EXCEPT !.schema = TRUE]>>
            /\ out' = Returned
    /\ Stored

\* await db.<op>(...): update_product returns at once when it is given no
\* field; the others reach self._conn.execute
call(op) ==
    /\ IF op.kind = "update_product" /\ op.fields = EmptyData
       THEN /\ out' = Returned
            /\ UNCHANGED db
       ELSE IF ~task[1].conn
       THEN /\ out' = Failure(ATTRIBUTE_ERROR)
            /\ UNCHANGED db
       ELSE /\ task[1].schema
            /\ op.kind = "add_category" =>
                   db.seq.categories < Len(DefaultCategories) * MaxSeeds
            /\ op.kind = "add_product" => db.seq.products < MaxSaved
            /\ op.kind = "create_order" => db.seq.orders < MaxOrders
            /\ LET r == Statement(db, op)
               IN  /\ db' = r.db
                   /\ out' = IF r.raised THEN Failure(INTEGRITY_ERROR) ELSE Returned
    /\ UNCHANGED task /\ Stored

NextStore == connect \/ close \/ call_create_schema \/ \E op \in StoreOps : call(op)

SpecStore == InitStore /\ [][NextStore]_vars

\* C22: an operation called while no connection is established fails with
\* the "not initialized" error and leaves the stored data as it was:
\* create_schema, every read, every write, and update_product called with no
\* field.
C22_NotInitialized ==
    [][~task[1].conn =>
          /\ call_create_schema => (out' = Failure(NOT_INITIALIZED) /\ db' = db)
          /\ \A op \in StoreOps :
                call(op) => (out' = Failure(NOT_INITIALIZED) /\ db' = db)]_vars

\* The categories of d are the six defaults, each once, with ids ascending
\* in the order of the default list
SeededOnly(d) ==
    /\ Cardinality(DOMAIN d.categories) = Len(DefaultCategories)
    /\ \A i \in DOMAIN DefaultCategories :
          Cardinality({c \in DOMAIN d.categories :
                          d.categories[c].name = DefaultCategories[i]}) = 1
    /\ \A i, j \in DOMAIN DefaultCategories :
          i < j => \A c1, c2 \in DOMAIN d.categories :
                      (d.categories[c1].name = DefaultCategories[i]
                          /\ d.categories[c2].name = DefaultCategories[j]) => c1 < c2
    /\ \A c \in DOMAIN d.categories : d.categories[c].id = c

\* C23: create_schema on a database whose categories table is not empty
\* changes no row; run twice in a row it gives what one run gives; on an
\* empty categories table it leaves the six default categories, each once,
\* ids ascending in the order of the default list, and the other tables as
\* they were.
C23_SchemaIdempotent ==
    /\ [](Database_create_schema(Database_create_schema(db)) = Database_create_schema(db))
    /\ [][(task[1].conn /\ call_create_schema) =>
             IF DOMAIN db.categories # {}
             THEN db' = db
             ELSE /\ SeededOnly(db')
                  /\ db'.products = db.products
                  /\ db'.orders = db.orders
                  /\ db'.support_messages = db.support_messages]_vars

\* Every category was deleted and create_schema seeded the defaults again
C23_Witness ==
    /\ task[1].conn /\ task[1].schema
    /\ db.seq.categories = 2 * Len(DefaultCategories)
    /\ SeededOnly(db)
    /\ 1 \notin DOMAIN db.categories

\* C24: category names are pairwise distinct and the category_id of every
\* product is the id of a stored category, after failed operations too;
\* add_category with a name that is stored leaves the categories as they
\* were.
C24_CatalogIntegrity ==
    /\ [](/\ \A c1, c2 \in DOMAIN db.categories :
               db.categories[c1].name = db.categories[c2].name => c1 = c2
          /\ \A p \in DOMAIN db.products :
               db.products[p].category_id \in DOMAIN db.categories)
    /\ [][\A op \in StoreOps :
             (/\ task[1].conn
              /\ op.kind = "add_category"
              /\ \E c \in DOMAIN db.categories : db.categories[c].name = op.name
              /\ call(op)) => db' = db]_vars

\* A product is stored, a category was added, and the last operation failed
\* on a constraint
C24_Witness ==
    /\ out = Failure(INTEGRITY_ERROR)
    /\ DOMAIN db.products # {}
    /\ \E c \in DOMAIN db.categories : db.categories[c].name = "Piony"
    /\ Cardinality(DOMAIN db.categories) < db.seq.categories

(***************************************************************************)
(* SpecMain: one run of main().  task[1].pc is the statement main is at,   *)
(* task[1].conn tells whether the connection was never opened ("none"), is *)
(* open or was closed.  A statement that raises outside the try block      *)
(* ends the process with the exception.                                    *)
(***************************************************************************)
At(pc) == task[1].pc = pc

Goto(pc) == task' = <<[task[1] EXCEPT !.pc = pc]>>

Process == UNCHANGED <<now, lock, durable, notify, view>>

Idle == UNCHANGED <<db, fsm, data, kb, out, pass>>

\* settings = Settings(); settings.validate(); db = Database(settings.db_path)
main_settings(ok) ==
    /\ At("settings")
    /\ Goto(IF ok THEN "connect" ELSE "exited")
    /\ Idle /\ Process

\* await db.connect(): aiosqlite.connect may raise; once self._conn is set,
\* one of the PRAGMA statements may raise
main_connect(opened, ok) ==
    /\ At("connect")
    /\ ok => opened
    /\ task' = <<[pc |-> IF ok THEN "create_schema" ELSE "exited",
                  conn |-> IF opened THEN "open" ELSE "none"]>>
    /\ Idle /\ Process

\* await db.create_schema()
main_create_schema(ok) ==
    /\ At("create_schema")
    /\ IF ok
       THEN db' = Database_create_schema(db) /\ Goto("bot")
       ELSE UNCHANGED db /\ Goto("exited")
    /\ UNCHANGED <<fsm, data, kb, out, pass>> /\ Process

\* bot = Bot(settings.bot_token, ...): a token that is not well formed raises
main_bot(ok) ==
    /\ At("bot")
    /\ Goto(IF ok THEN "dispatcher" ELSE "exited")
    /\ Idle /\ Process

\* dp = Dispatcher(storage=MemoryStorage()); dp["db"]; dp["settings"];
\* register_handlers(dp)
main_dispatcher ==
    /\ At("dispatcher")
    /\ Goto("polling")
    /\ Idle /\ Process

\* An update handled while dp.start_polling runs
main_update(u) ==
    /\ At("polling")
    /\ \/ cmd_start(u)
       \/ order_start(u, 1, 1, 1)
       \/ date_selected(u, "tomorrow")
       \/ cancel_order(u)

\* dp.start_polling returns or raises: the finally block is entered
main_polling_ends(ok) ==
    /\ At("polling")
    /\ Goto("finally")
    /\ out' = IF ok THEN Unhandled ELSE Crashed(0, <<>>)
    /\ UNCHANGED <<db, fsm, data, kb, pass>> /\ Process

\* finally: await db.close(); the process ends and MemoryStorage with it
main_finally ==
    /\ At("finally")
    /\ task' = <<[pc |-> "exited", conn |-> "closed"]>>
    /\ fsm' = [u \in Users |-> S_NONE]
    /\ data' = [u \in Users |-> EmptyData]
    /\ UNCHANGED <<db, kb, out, pass>> /\ Process

InitMain ==
    /\ now = [day |-> 0, hour |-> 10]
    /\ db \in {EmptyDb, FreshDb}
    /\ durable = db
    /\ lock = 0
    /\ task = <<[pc |-> "settings", conn |-> "none"]>>
    /\ fsm = [u \in Users |-> S_NONE]
    /\ data = [u \in Users |-> EmptyData]
    /\ kb = [u \in Users |-> NoMarkup]
    /\ out = Unhandled
    /\ pass = [u \in Users |-> EmptyData]
    /\ notify = <<>>
    /\ view = <<>>

NextMain ==
    \/ \E ok \in BOOLEAN : main_settings(ok)
    \/ \E opened, ok \in BOOLEAN : main_connect(opened, ok)
    \/ \E ok \in BOOLEAN : main_create_schema(ok)
    \/ \E ok \in BOOLEAN : main_bot(ok)
    \/ main_dispatcher
    \/ \E u \in Users : main_update(u)
    \/ \E ok \in BOOLEAN : main_polling_ends(ok)
    \/ main_finally

SpecMain == InitMain /\ [][NextMain]_vars

\* C21: when the process has ended after the connection was opened, the
\* connection is closed, whether polling returned or a statement after the
\* connection was opened raised.
C21_ClosedBeforeExit == At("exited") => task[1].conn # "open"

(***************************************************************************)
(* SpecProduct: the administrator goes through the add-product flow,       *)
(* leaves it and enters it again                                           *)
(***************************************************************************)
T_ZERO == <<"0">>
T_PRICE_ENGLISH == <<"f", "r", "o", "m", " ", "5">>

ProductPriceTexts == {T_PRICE, T_PRICE_FROM, T_SHORT, T_ZERO, T_PRICE_ENGLISH}

NextProduct ==
    \E u \in Typists :
        \/ admin_add_product_start(u)
        \/ \E f \in PhotoIds : admin_add_photo(u, f)
        \/ \E t \in NameTexts : admin_add_name(u, t)
        \/ \E c \in CategoryIds : admin_add_category_selected(u, c)
        \/ \E t \in ProductPriceTexts : admin_add_price(u, t)
        \/ \E t \in DescriptionTexts : admin_add_description(u, t)
        \/ admin_save_product(u)
        \/ admin_cancel_add(u)
        \/ admin_back(u)
        \/ cmd_start(u)
        \/ order_start(u, 1, 1, 1)

SpecProduct == Init /\ [][NextProduct]_vars

\* The states of the flow in their order, and the fields each one collects
ProductStages == <<A_PHOTO, A_NAME, A_CATEGORY, A_PRICE, A_DESCRIPTION, A_CONFIRM>>

StageFields ==
    <<{"photo_file_id"}, {"name"}, {"category_id"}, {"price", "price_from"}, {"description"},
      {}>>

NextStage(i) == ProductStages[IF i < Len(ProductStages) THEN i + 1 ELSE i]

Stage(state) == CHOOSE i \in DOMAIN ProductStages : ProductStages[i] = state

\* The step of user u that leaves stage i for the next one supplies i's fields
Supplies(u, i) ==
    CASE i = 1 -> \E f \in PhotoIds : admin_add_photo(u, f) /\ data'[u].photo_file_id = f
      [] i = 2 -> \E t \in NameTexts :
                     /\ admin_add_name(u, t)
                     /\ data'[u].name = strip(t)
                     /\ Len(strip(t)) \in NameMin..NameMax
      [] i = 3 -> \E c \in CategoryIds :
                     admin_add_category_selected(u, c) /\ data'[u].category_id = c
      [] i = 4 -> \E t \in ProductPriceTexts : admin_add_price(u, t)
      [] i = 5 -> \E t \in DescriptionTexts :
                     /\ admin_add_description(u, t)
                     /\ data'[u].description = strip(t)
                     /\ Len(strip(t)) <= DescriptionMax

PricePrefixes == {PrefixFrom, <<"f", "r", "o", "m">>}

PrefixOf(t) == {p \in PricePrefixes : StartsWith(lower(strip(t)), p)}

Integer(raw) == raw # <<>> /\ \A i \in DOMAIN raw : raw[i] \in Digits

Accepted(t) ==
    LET raw0 == strip(t)
    IN  IF PrefixOf(t) = {}
        THEN Integer(raw0) /\ int(raw0).value > 0
        ELSE \E p \in PrefixOf(t) : Integer(strip(SubSeq(raw0, Len(p) + 1, Len(raw0))))

\* C26: the price step goes on to the description exactly for a bare
\* positive integer or the prefix "ot" or "from" followed by an integer; the
\* price_from it stores is set exactly when a prefix was given, and the price
\* it stores is positive.
C26_PriceStep ==
    [][\A u \in Users, t \in ProductPriceTexts :
          admin_add_price(u, t) =>
              /\ (fsm'[u] = A_DESCRIPTION) <=> Accepted(t)
              /\ fsm'[u] = A_DESCRIPTION =>
                    /\ data'[u].price_from <=> (PrefixOf(t) # {})
                    /\ data'[u].price > 0]_vars

(***************************************************************************)
(* SpecPrepayment: the prepayment of show_summary, order_confirm and       *)
(* order_details.  A price is a binary numeral, most significant bit       *)
(* first and <<>> for zero, so that the prices SQLite stores (up to        *)
(* 2^63 - 1) keep their width; price * 0.5 is computed in double           *)
(* precision as Python does.                                               *)
(***************************************************************************)
MantissaBits == 53      \* significant bits of a Python float
SmallBits == 5          \* every price below 2^SmallBits is tried

Zeros(n) == [i \in 1..n |-> 0]

Ones(n) == [i \in 1..n |-> 1]

\* The numeral of n
RECURSIVE Numeral(_)
Numeral(n) == IF n = 0 THEN <<>> ELSE Append(Numeral(n \div 2), n % 2)

\* b + 1
RECURSIVE Successor(_)
Successor(b) ==
    IF b = <<>> THEN <<1>>
    ELSE IF b[Len(b)] = 0 THEN Append(SubSeq(b, 1, Len(b) - 1), 1)
    ELSE Append(Successor(SubSeq(b, 1, Len(b) - 1)), 0)

\* float(price): the nearest double, ties to the even mantissa; the value
\* is m * 2^e
float(b) ==
    IF Len(b) <= MantissaBits THEN [m |-> b, e |-> 0]
    ELSE LET keep == SubSeq(b, 1, MantissaBits)
             rest == SubSeq(b, MantissaBits + 1, Len(b))
             tail == \E i \in 2..Len(rest) : rest[i] = 1
             up == rest[1] = 1 /\ (tail \/ keep[MantissaBits] = 1)
         IN  [m |-> IF up THEN Successor(keep) ELSE keep, e |-> Len(rest)]

\* x * 0.5, exact in double precision
half(x) == [m |-> x.m, e |-> x.e - 1]

\* int(x) of a non-negative double: truncation
truncate(x) ==
    IF x.e >= 0 THEN (IF x.m = <<>> THEN <<>> ELSE x.m \o Zeros(x.e))
    ELSE SubSeq(x.m, 1, Len(x.m) - 1)

\* The prepayment without the conversion to float
prepayment_exact(price) == SubSeq(price, 1, Len(price) - 1)

\* int(price * 0.5), int(product.price * settings.prepayment_ratio)
prepayment(price) == truncate(half(float(price)))

T_EXAMPLE_PRICE ==
    <<1, 1, 0, 1, 1, 0, 1, 1, 1, 0, 1, 1, 1, 0, 1, 0, 0, 0, 0, 0, 0>>    \* 1,800,000

T_EXAMPLE_PREPAYMENT ==
    <<1, 1, 0, 1, 1, 0, 1, 1, 1, 0, 1, 1, 1, 0, 1, 0, 0, 0, 0, 0>>       \* 900,000

StoredPrices ==
    {Numeral(n) : n \in 0..(2^SmallBits - 1)}
        \cup {T_EXAMPLE_PRICE,
              <<1>> \o Zeros(MantissaBits - 1) \o <<1>>,            \* 2^53 + 1
              <<1>> \o Zeros(MantissaBits - 1) \o <<1, 0>>,         \* 2^54 + 2
              <<1>> \o Zeros(MantissaBits - 1) \o <<1, 1, 0>>,      \* 2^55 + 6
              Ones(63)}                                             \* 2^63 - 1

\* A message that states the prepayment of a price
States(by, price) == view' = <<[by |-> by, price |-> price, prepayment |-> prepayment(price)]>>

show_summary_prepayment(price) ==
    /\ States("show_summary", price)
    /\ UNCHANGED <<now, db, fsm, data, kb, out, pass, lock, task, durable, notify>>

order_confirm_prepayment(price) ==
    /\ States("order_confirm", price)
    /\ UNCHANGED <<now, db, fsm, data, kb, out, pass, lock, task, durable, notify>>

order_details_prepayment(price) ==
    /\ States("order_details", price)
    /\ UNCHANGED <<now, db, fsm, data, kb, out, pass, lock, task, durable, notify>>

NextPrepayment ==
    \E price \in StoredPrices :
        \/ show_summary_prepayment(price)
        \/ order_confirm_prepayment(price)
        \/ order_details_prepayment(price)

SpecPrepayment == Init /\ [][NextPrepayment]_vars

\* C27: the prepayment that the summary, the confirmation messages and the
\* order details state for a price is floor(price / 2), the same in all
\* three, and 900,000 for 1,800,000.
C27_PrepaymentIsHalf ==
    \A i \in DOMAIN view :
        /\ view[i].prepayment = prepayment_exact(view[i].price)
        /\ view[i].price = T_EXAMPLE_PRICE => view[i].prepayment = T_EXAMPLE_PREPAYMENT

(***************************************************************************)
(* Edit in the confirmation state                                          *)
(***************************************************************************)
LaterFields == {S_TIME, S_ADDRESS, S_CARD, S_PHONE}

\* C28: a step of order_edit is taken in waiting_for_confirmation and leaves
\* the user in waiting_for_delivery_date with the dialogue data, the product
\* among them, as they were and none of date, time, address, card text and phone supplied; no
\* step leads from waiting_for_confirmation to the state of a later field;
\* the confirmation state is entered only from the phone step with all five
\* supplied since the dialogue last entered waiting_for_delivery_date, and
\* an order is created only from such a pass, with the values supplied in it.
C28_EditRestartsFromDate ==
    [][\A u \in Users :
          /\ order_edit(u) =>
                /\ fsm[u] = S_CONFIRM /\ fsm'[u] = S_DATE
                /\ data'[u] = data[u]
                /\ DOMAIN pass'[u] \cap PassFields = {}
          /\ fsm[u] = S_CONFIRM => fsm'[u] \notin LaterFields
          /\ (fsm'[u] = S_CONFIRM /\ fsm[u] # S_CONFIRM) =>
                /\ fsm[u] = S_PHONE
                /\ PassFields \subseteq DOMAIN pass'[u]
          /\ fsm[u] = S_CONFIRM => PassFields \subseteq DOMAIN pass[u]
          /\ \A o \in NewOrders :
                db'.orders[o].user_id = u =>
                    /\ fsm[u] = S_CONFIRM
                    /\ \A k \in PassFields : db'.orders[o][k] = pass[u][k]]_vars

\* Edit was pressed: the user is asked for the date again, the product and
\* the fields of the earlier pass are still in the dialogue data, nothing has
\* been supplied in the new pass.
C28_Witness ==
    \E u \in Shoppers :
        /\ fsm[u] = S_DATE
        /\ {"product_id", "phone", "address"} \subseteq DOMAIN data[u]
        /\ DOMAIN pass[u] \cap PassFields = {}
        /\ kb[u] = order_date_kb(TRUE, now.day)
        /\ out = Answer(u, "")

(***************************************************************************)
(* SpecFields: one order dialogue with many phone numbers and card texts   *)
(***************************************************************************)
Ds(n) == [i \in 1..n |-> ToString(i % 10)]

Separators == {<<>>, <<" ">>, <<" ", " ">>}

T_PHONE_GROUPED ==
    <<"+", "8", "4", " ", "9", "1", "2", " ", "3", "4", "5", " ", "6", "7", "8", "9">>
T_PHONE_PLUS == <<"+", "1", "2", "3", "4", "5", "6", "7", "8", "9">>
T_PHONE_SHORT == <<"1", "2", "3", "4", "5">>
T_PHONE_LETTERS == <<"a", "b", "c">>
T_PHONE_BARE == <<"8", "4", "9", "1", "2", "3", "4", "5", "6", "7", "8">>

PhoneCandidates ==
    {<<"+">> \o Ds(a) \o s1 \o Ds(3) \o s2 \o Ds(3) \o s3 \o Ds(b) :
         a \in 1..3, b \in 3..5, s1 \in Separators, s2 \in Separators, s3 \in Separators}
        \cup {<<"0">> \o Ds(n) : n \in 8..10}
        \cup {<<"+">> \o Ds(n) : n \in 8..17}
        \cup {T_PHONE_GROUPED, T_PHONE, T_PHONE_PLUS, T_PHONE_SHORT, T_PHONE_LETTERS,
              <<" ">> \o T_PHONE \o <<"\n">>,
              <<"+", "8", "4", "\t", "9", "1", "2", "3", "4", "5", "6", "7", "8", "9">>,
              <<"+", "8", "4", "-", "9", "1", "2", "3", "4", "5", "6", "7", "8", "9">>,
              <<"0", "9", "1", "2", " ", "3", "4", "5", "6", "7", "8">>}

ContactCandidates == {T_PHONE, T_PHONE_BARE}

CardCandidates ==
    {T_SHORT, <<" ", " ">>,
     Repeat("x", CardTextMax - 1), Repeat("x", CardTextMax), Repeat("x", CardTextMax + 50),
     <<" ">> \o Repeat("x", CardTextMax) \o <<"y", " ">>,
     Repeat("x", CardTextMax - 1) \o <<" ">> \o Repeat("y", 50)}

\* The dialogue goes on until the bot has taken the orders it may take
Ordering == db.seq.orders < InitialDb.seq.orders + MaxOrders

NextFields ==
    \E u \in Shoppers :
        \/ Ordering /\ order_start(u, 1, 1, 1)
        \/ Ordering /\ date_selected(u, "today")
        \/ Ordering /\ time_selected(u, TimeSlots[2])
        \/ Ordering /\ address_text(u, T_LONG)
        \/ Ordering /\ card_skip(u)
        \/ Ordering /\ \E t \in CardCandidates : card_text(u, t)
        \/ Ordering /\ \E t \in ContactCandidates : phone_contact(u, t)
        \/ Ordering /\ \E t \in PhoneCandidates : phone_text(u, t)
        \/ Ordering /\ order_confirm(u, {})

SpecFields == Init /\ [][NextFields]_vars

AllDigits(t) == \A i \in DOMAIN t : t[i] \in Digits

\* '+', 2 digits, then groups of 3, 3 and 4 digits, each group after at most
\* one whitespace
ShapeGrouped(p) ==
    \E a \in 0..1, b \in 0..1, c \in 0..1 :
        /\ Len(p) = 13 + a + b + c
        /\ p[1] = "+"
        /\ AllDigits(SubSeq(p, 2, 3))
        /\ a = 1 => p[4] \in Whitespace
        /\ AllDigits(SubSeq(p, 4 + a, 6 + a))
        /\ b = 1 => p[7 + a] \in Whitespace
        /\ AllDigits(SubSeq(p, 7 + a + b, 9 + a + b))
        /\ c = 1 => p[10 + a + b] \in Whitespace
        /\ AllDigits(SubSeq(p, 10 + a + b + c, 13 + a + b + c))

\* '0' and exactly 9 digits
ShapeLocal(p) == Len(p) = 10 /\ p[1] = "0" /\ AllDigits(Tail(p))

\* '+' and 9 to 15 digits
ShapePlus(p) == Len(p) \in 10..16 /\ p[1] = "+" /\ AllDigits(Tail(p))

Shape(p) == ShapeGrouped(p) \/ ShapeLocal(p) \/ ShapePlus(p)

\* The candidates that have one of the shapes once trimmed
Shaped == {t \in PhoneCandidates : Shape(strip(t))}

\* C29: is_phone_valid holds of a text exactly when the text without its
\* surrounding whitespace has one of the three shapes; the phone step goes on
\* to the confirmation with a typed text only if the text has one of the
\* shapes, keeping it trimmed, and never refuses a text that has one;
\* "+84 912 345 6789", "0912345678" and "+123456789" are valid, "12345" and
\* "abc" are not; the phone of every order has one of the shapes or is a
\* number taken from a shared contact as it was.
C29_PhoneShapes ==
    /\ [][\A u \in Shoppers :
             /\ (fsm[u] = S_PHONE /\ fsm'[u] = S_CONFIRM) =>
                   \/ \E t \in ContactCandidates :
                         data'[u].phone = t /\ phone_contact(u, t)
                   \/ \E t \in Shaped :
                         data'[u].phone = strip(t) /\ phone_text(u, t)
             /\ (fsm[u] = S_PHONE /\ fsm'[u] = S_PHONE) =>
                   \A t \in Shaped : ~phone_text(u, t)]_vars
    /\ [](/\ \A t \in PhoneCandidates : is_phone_valid(t) <=> Shape(strip(t))
          /\ is_phone_valid(T_PHONE_GROUPED) /\ is_phone_valid(T_PHONE)
          /\ is_phone_valid(T_PHONE_PLUS)
          /\ ~is_phone_valid(T_PHONE_SHORT) /\ ~is_phone_valid(T_PHONE_LETTERS)
          /\ \A o \in DOMAIN db.orders :
                Shape(db.orders[o].phone) \/ db.orders[o].phone \in ContactCandidates)

\* Orders were placed with a typed number of the grouped shape and with a
\* contact's number that has none of the shapes.
C29_Witness ==
    \E o \in DOMAIN db.orders :
        /\ o \notin DOMAIN InitialDb.orders
        /\ db.orders[o].phone = T_PHONE_BARE
        /\ ~Shape(T_PHONE_BARE) /\ Shape(T_PHONE_GROUPED)
        /\ ~is_phone_valid(<<"+">> \o Ds(17)) /\ is_phone_valid(<<"+">> \o Ds(15))

\* The first 200 characters of the trimmed text, all of it when it is shorter
FirstChars(text) ==
    LET s == strip(text)
    IN  IF Len(s) <= CardTextMax THEN s ELSE [i \in 1..CardTextMax |-> s[i]]

\* C30: the card text the card step keeps is the first 200 characters of the
\* trimmed text, and normalizing a kept text shorter than 200 characters
\* again gives the same text; the card text of every order is absent or at
\* most 200 characters long.
C30_CardTextNormalized ==
    /\ [][\A u \in Shoppers : \A t \in CardCandidates :
             (fsm[u] = S_CARD /\ fsm'[u] = S_PHONE /\ card_text(u, t)) =>
                 LET kept == data'[u].card_text
                 IN  /\ kept = FirstChars(t)
                     /\ kept = normalize_card_text(t)
                     /\ Len(kept) < CardTextMax => normalize_card_text(kept) = kept]_vars
    /\ [](\A o \in DOMAIN db.orders :
             db.orders[o].card_text = None \/ Len(db.orders[o].card_text) <= CardTextMax)

\* An order carries the first 200 characters of a longer card text
C30_Witness ==
    \E o \in DOMAIN db.orders :
        /\ o \notin DOMAIN InitialDb.orders
        /\ db.orders[o].card_text = Repeat("x", CardTextMax)
        /\ normalize_card_text(Repeat("x", CardTextMax + 50)) = Repeat("x", CardTextMax)

(***************************************************************************)
(* SpecFormat: helpers.py, format_price applied to prices and flags        *)
(***************************************************************************)
MaxSmallPrice == 40     \* every price up to this one is formatted

\* str(n) of a natural number
RECURSIVE str(_)
str(n) == IF n < 10 THEN <<ToString(n)>> ELSE Append(str(n \div 10), ToString(n % 10))

\* The groups after the first one without their leading zeros
RECURSIVE thousands_unpadded(_)
thousands_unpadded(n) ==
    IF n < 1000 THEN str(n)
    ELSE thousands_unpadded(n \div 1000) \o <<",">> \o str(n % 1000)

\* f"{n:,}" of a natural number
RECURSIVE thousands(_)
thousands(n) ==
    IF n < 1000 THEN str(n)
    ELSE LET group == n % 1000
         IN  thousands(n \div 1000)
                 \o <<",", ToString(group \div 100), ToString((group \div 10) % 10),
                      ToString(group % 10)>>

\* f"{price:,}"
format_thousands(price) ==
    IF price < 0 THEN <<"-">> \o thousands(0 - price) ELSE thousands(price)

\* str.replace for single characters
replace(t, old, new) == [i \in DOMAIN t |-> IF t[i] = old THEN new ELSE t[i]]

T_VND == <<" ", "V", "N", "D">>

format_price(price, price_from) ==
    LET amount == replace(format_thousands(price), ",", " ")
    IN  IF price_from THEN PrefixFrom \o <<" ">> \o amount \o T_VND ELSE amount \o T_VND

FormattedPrices ==
    (0..MaxSmallPrice)
        \cup {99, 100, 999, 1000, 1001, 1010, 9999, 10000, 12345, 100000, 999999, 1000000,
              1000001, 1800000, 900000, 100200300, 2000000000}
        \cup {-1, -999, -1000, -1800000}

format(price, price_from) ==
    /\ view' = <<[price |-> price, price_from |-> price_from,
                  text |-> format_price(price, price_from)]>>
    /\ UNCHANGED <<now, db, fsm, data, kb, out, pass, lock, task, durable, notify>>

NextFormat == \E price \in FormattedPrices, price_from \in BOOLEAN : format(price, price_from)

SpecFormat == Init /\ [][NextFormat]_vars

T_EXAMPLE_TEXT == <<"1", " ", "8", "0", "0", " ", "0", "0", "0", " ", "V", "N", "D">>

\* The digits of b stand in groups of three counted from the right, a single
\* space between two groups
GroupedDigits(b, digits) ==
    /\ SelectSeq(b, LAMBDA ch : ch # " ") = digits
    /\ \A k \in 1..Len(b) : (b[Len(b) - k + 1] = " ") <=> (k % 4 = 0)
    /\ b[1] # " "

ConfirmAdminLists == {<<>>, <<1>>, <<1, 3>>}

ConfirmData ==
    [category_id |-> 1, category_page |-> 1, product_id |-> 1, product_price |-> InitialPrice,
     product_name |-> <<"R", "o", "z", "y">>, delivery_date |-> isoformat(1),
     delivery_time |-> TimeSlots[2], address |-> strip(T_LONG), card_text |-> None,
     phone |-> T_PHONE]

InitConfirm ==
    /\ notify \in {[admin_ids |-> ids, fails |-> {}, called |-> FALSE,
                   result |-> [attempts |-> <<>>, raised |-> FALSE]] : ids \in ConfirmAdminLists}
    /\ now = [day |-> 0, hour |-> 10]
    /\ db = InitialDb
    /\ durable = InitialDb
    /\ lock = 0
    /\ task = <<>>
    /\ fsm = [u \in Users |-> IF u \in Shoppers THEN S_CONFIRM ELSE S_NONE]
    /\ data = [u \in Users |-> IF u \in Shoppers THEN ConfirmData ELSE EmptyData]
    /\ kb = [u \in Users |-> IF u \in Shoppers THEN create_confirmation_kb ELSE NoMarkup]
    /\ out = Unhandled
    /\ pass = [u \in Users |-> EmptyData]
    /\ view = <<>>

\* admin_kb of order_confirm
order_moderation_kb(order_id) ==
    << << <<"admin_order_accept", order_id>> >>, << <<"admin_order_reject", order_id>> >> >>

Run(i) == task[i]

Step(i, run) == task' = [task EXCEPT ![i] = run]

\* The state filter passes, data = await state.get_data()
confirm_dispatch(u) ==
    /\ Len(task) < MaxInFlight
    /\ Route(fsm[u], Callback(<<"order_confirm">>)) = "order_confirm"
    /\ task' = Append(task, [user |-> u, pc |-> "persist", data |-> data[u], order_id |-> 0,
                             sent |-> <<>>, replied |-> FALSE])
    /\ out' = Answer(u, "")
    /\ UNCHANGED <<now, db, fsm, data, kb, pass, lock, durable, notify, view>>

\* get_product and create_order
confirm_persist(i) ==
    /\ i \in DOMAIN task /\ Run(i).pc = "persist"
    /\ LET d == Run(i).data
           u == Run(i).user
           product == IF Has(d, "product_id") THEN get_product(db, d.product_id) ELSE <<>>
       IN  IF ~({"product_id", "delivery_date", "delivery_time", "address", "phone"}
                    \subseteq DOMAIN d)
           THEN /\ Step(i, [Run(i) EXCEPT !.pc = "raised"])
                /\ out' = Crashed(u, <<>>)
                /\ UNCHANGED db
           ELSE IF product = <<>>
           THEN /\ Step(i, [Run(i) EXCEPT !.pc = "done"])
                /\ out' = Answer(u, NOTICE_NO_PRODUCT)
                /\ UNCHANGED db
           ELSE LET created == create_order(db,
                                   [user_id |-> u,
                                    username |-> UsernameOf(u),
                                    product_id |-> d.product_id,
                                    price |-> confirm_price(d, product[1]),
                                    delivery_date |-> d.delivery_date,
                                    delivery_time |-> d.delivery_time,
                                    address |-> d.address,
                                    card_text |-> IF Has(d, "card_text") THEN d.card_text ELSE None,
                                    phone |-> d.phone,
                                    status |-> STATUS_NEW])
                IN  /\ db' = created.db
                    /\ Step(i, [Run(i) EXCEPT !.pc = "notify", !.order_id = created.lastrowid])
                    /\ out' = Answer(u, "")
    /\ UNCHANGED <<now, fsm, data, kb, pass, lock, durable, notify, view>>

\* The delivery to the next administrator outside any try
confirm_notify_unprotected(i, ok) ==
    /\ i \in DOMAIN task /\ Run(i).pc = "notify"
    /\ Len(Run(i).sent) < Len(notify.admin_ids)
    /\ LET to == notify.admin_ids[Len(Run(i).sent) + 1]
           delivery == [to |-> to, ok |-> ok, markup |-> order_moderation_kb(Run(i).order_id)]
       IN  /\ Step(i, [Run(i) EXCEPT !.sent = Append(@, delivery),
                                     !.pc = IF ok THEN "notify" ELSE "raised"])
           /\ out' = [to |-> Run(i).user, answer |-> "", sent |-> <<[to |-> to, ok |-> ok]>>,
                      raised |-> ~ok]
    /\ UNCHANGED <<now, db, fsm, data, kb, pass, lock, durable, notify, view>>

\* notify_admins, one turn of its loop: try: send_message  except: continue
confirm_notify(i, ok) ==
    /\ i \in DOMAIN task /\ Run(i).pc = "notify"
    /\ Len(Run(i).sent) < Len(notify.admin_ids)
    /\ LET to == notify.admin_ids[Len(Run(i).sent) + 1]
           delivery == [to |-> to, ok |-> ok, markup |-> order_moderation_kb(Run(i).order_id)]
       IN  /\ Step(i, [Run(i) EXCEPT !.sent = Append(@, delivery)])
           /\ out' = [to |-> Run(i).user, answer |-> "",
                      sent |-> try_send(to, ok).attempts, raised |-> try_send(to, ok).raised]
    /\ UNCHANGED <<now, db, fsm, data, kb, pass, lock, durable, notify, view>>

\* cb.message.answer(...) with the main menu; a delivery that fails raises
confirm_reply(i, ok) ==
    /\ i \in DOMAIN task /\ Run(i).pc = "notify"
    /\ Len(Run(i).sent) = Len(notify.admin_ids)
    /\ IF ok
       THEN /\ Step(i, [Run(i) EXCEPT !.pc = "clear", !.replied = TRUE])
            /\ kb' = Set(kb, Run(i).user, main_menu_kb)
            /\ out' = Answer(Run(i).user, "")
       ELSE /\ Step(i, [Run(i) EXCEPT !.pc = "raised"])
            /\ out' = Crashed(Run(i).user, <<>>)
            /\ UNCHANGED kb
    /\ UNCHANGED <<now, db, fsm, data, pass, lock, durable, notify, view>>

\* await state.clear()
confirm_clear(i) ==
    /\ i \in DOMAIN task /\ Run(i).pc = "clear"
    /\ Step(i, [Run(i) EXCEPT !.pc = "answer"])
    /\ fsm' = Set(fsm, Run(i).user, S_NONE)
    /\ data' = Set(data, Run(i).user, EmptyData)
    /\ out' = Answer(Run(i).user, "")
    /\ UNCHANGED <<now, db, kb, pass, lock, durable, notify, view>>

\* await cb.answer()
confirm_answer(i) ==
    /\ i \in DOMAIN task /\ Run(i).pc = "answer"
    /\ Step(i, [Run(i) EXCEPT !.pc = "done"])
    /\ out' = Answer(Run(i).user, "")
    /\ UNCHANGED <<now, db, fsm, data, kb, pass, lock, durable, notify, view>>

NextConfirm ==
    \/ \E u \in Shoppers : confirm_dispatch(u)
    \/ \E i \in 1..MaxInFlight :
          \/ confirm_persist(i)
          \/ \E ok \in BOOLEAN : confirm_notify(i, ok)
          \/ \E ok \in BOOLEAN : confirm_reply(i, ok)
          \/ confirm_clear(i)
          \/ confirm_answer(i)

SpecConfirm == InitConfirm /\ [][NextConfirm]_vars

\* C32: a run of order_confirm notifies only after its order is stored,
\* every administrator in the order of the list with the accept and reject
\* buttons of that order, replies to the customer only after the last
\* administrator was tried and clears the state only after the reply; the
\* stored order stays, and a delivery to an administrator, failed or not,
\* changes no order and lets the run go on.
C32_ConfirmOrder ==
    /\ [](\A i \in DOMAIN task :
             LET run == Run(i)
             IN  /\ run.order_id # 0 => run.order_id \in DOMAIN db.orders
                 /\ run.sent # <<>> => run.order_id # 0
                 /\ Len(run.sent) <= Len(notify.admin_ids)
                 /\ \A j \in DOMAIN run.sent :
                       /\ run.sent[j].to = notify.admin_ids[j]
                       /\ run.sent[j].markup = order_moderation_kb(run.order_id)
                 /\ run.replied => Len(run.sent) = Len(notify.admin_ids)
                 /\ run.pc \in {"clear", "answer"} => run.replied
                 /\ (run.pc = "done" /\ run.order_id # 0) =>
                        run.replied /\ fsm[run.user] = S_NONE /\ data[run.user] = EmptyData)
    /\ [][/\ \A i \in DOMAIN task : \A ok \in BOOLEAN :
                confirm_notify(i, ok) => db' = db /\ task'[i].pc = "notify"
          /\ \A u \in Users :
                fsm'[u] # fsm[u] =>
                    \E i \in DOMAIN task : Run(i).user = u /\ Run(i).replied /\ confirm_clear(i)
          /\ \A o \in DOMAIN db.orders : o \in DOMAIN db'.orders]_vars

\* A run ended with its order stored, the customer answered and the state
\* cleared although the deliveries to both administrators failed
C32_Witness ==
    \E i \in DOMAIN task :
        /\ Run(i).pc = "done"
        /\ Len(Run(i).sent) = 2
        /\ \A j \in DOMAIN Run(i).sent : ~Run(i).sent[j].ok
        /\ Run(i).order_id \in DOMAIN db.orders
        /\ Run(i).replied
        /\ fsm[Run(i).user] = S_NONE

\* C34: the one passage through waiting_for_confirmation that the user
\* makes adds at most one row to the orders.
C34_OneOrderPerPassage ==
    Cardinality((DOMAIN db.orders) \ (DOMAIN InitialDb.orders)) <= 1

(***************************************************************************)
(* Walking through the pages of a category (SpecCatalog)                   *)
(***************************************************************************)
\* The ids that page q of category c holds
PageOf(c, q) ==
    LET rows == get_products_by_category(db, c, PAGE_SIZE, (q - 1) * PAGE_SIZE)
    IN  [i \in DOMAIN rows |-> rows[i].id]

Range(f) == {f[i] : i \in DOMAIN f}

LastPage(c) == TotalPages(Cardinality(ActiveIn(db, c)))

\* C33: the pages 1..T of a category hold each of its active products once
\* and no inactive product; a listing shows the products of its page, offers
\* "previous page" exactly above page 1 and "next page" exactly below page T,
\* with the numbers of the neighbouring pages, which lie in 1..T; opening
\* the category shows page 1 and pressing the "next page" offered on page q
\* shows page q + 1.
C33_PagesPartition ==
    /\ [](/\ \A c \in ListedCategories :
               /\ \A p \in DOMAIN db.products :
                     Cardinality({<<q, i>> \in (1..LastPage(c)) \X (1..PAGE_SIZE) :
                                     i \in DOMAIN PageOf(c, q) /\ PageOf(c, q)[i] = p})
                         = (IF p \in ActiveIn(db, c) THEN 1 ELSE 0)
          /\ \A i \in DOMAIN view :
               LET v == view[i]
                   B == Buttons(kb[v.to])
                   prev == {b \in B : b[1] = "prev_page"}
                   next == {b \in B : b[1] = "next_page"}
               IN  /\ v.page \in 1..LastPage(v.category_id)
                   /\ v.products = PageOf(v.category_id, v.page)
                   /\ prev = (IF v.page > 1 THEN {<<"prev_page", v.category_id, v.page - 1>>}
                              ELSE {})
                   /\ next = (IF v.page < LastPage(v.category_id)
                              THEN {<<"next_page", v.category_id, v.page + 1>>} ELSE {})
                   /\ \A b \in prev \cup next : b[3] \in 1..LastPage(v.category_id))
    /\ [][\A u \in Shoppers, c \in ListedCategories :
             /\ open_category(u, c) => view'[1].page = 1 /\ view'[1].category_id = c
             /\ \A p \in Pages :
                   (/\ <<"next_page", c, p>> \in Buttons(kb[u])
                    /\ paginate_products(u, "next_page", c, p)) =>
                       /\ view'[1].category_id = view[1].category_id
                       /\ view'[1].page = view[1].page + 1]_vars

\* Twelve active products and a hidden one: the walk reached the third and
\* last page, which offers the way back only
C33_Witness ==
    /\ Cardinality(ActiveIn(db, 1)) = 12
    /\ Cardinality(DOMAIN db.products) = 14
    /\ view # <<>>
    /\ view[1].query = <<"next_page", 1, 3>>
    /\ view[1].page = 3
    /\ Len(view[1].products) = 2
    /\ <<"prev_page", 1, 2>> \in Buttons(kb[view[1].to])
    /\ \A b \in Buttons(kb[view[1].to]) : b[1] # "next_page"

(***************************************************************************)
(* The data behind the confirmation state (Spec)                           *)
(***************************************************************************)
ConfirmFields == {"product_id", "delivery_date", "delivery_time", "address", "phone"}

\* C35: while a user is in waiting_for_confirmation the dialogue data hold
\* product_id, delivery_date, delivery_time, address and phone, and no step
\* of order_confirm raises.
C35_ConfirmHasItsFields ==
    /\ [](\A u \in Users : fsm[u] = S_CONFIRM => ConfirmFields \subseteq DOMAIN data[u])
    /\ [][\A u \in Users : \A fails \in SUBSET (DOMAIN admin_ids) :
             order_confirm(u, fails) => ~out'.raised]_vars

(***************************************************************************)
(* Moderation of an order that was moderated before (SpecAdmin)            *)
(***************************************************************************)
\* C36: an order that an administrator accepted (in work) or rejected
\* (cancelled) keeps that status in every later step, whoever presses accept
\* or reject for it.
C36_StatusSettled ==
    [][\A o \in DOMAIN db.orders :
          db.orders[o].status \in {STATUS_IN_WORK, STATUS_CANCELLED} =>
              /\ o \in DOMAIN db'.orders
              /\ db'.orders[o].status = db.orders[o].status]_vars

(***************************************************************************)
(* Whose order a callback may name (SpecRepeat)                            *)
(***************************************************************************)
\* C37: a step of repeat_order_callback that seeds a dialogue from a stored
\* order, and a step of order_details that shows one, is taken for an order
\* whose user_id is the caller.
C37_OwnOrdersOnly ==
    [][\A u \in Users : \A o \in DOMAIN db.orders :
          /\ (repeat_order_callback(u, o) /\ fsm'[u] = S_DATE) => db.orders[o].user_id = u
          /\ (order_details(u, o) /\ kb'[u] = orders_list_nav_kb(o)) =>
                 db.orders[o].user_id = u]_vars

(***************************************************************************)
(* SpecFlows: the add-product and category-management flows, with the      *)
(* administrator and an identity outside admin_ids sending their events    *)
(***************************************************************************)
\* str of a list of characters
RECURSIVE text(_)
text(chars) == IF chars = <<>> THEN "" ELSE Head(chars) \o text(Tail(chars))

T_CATEGORY == <<" ", "E", "k", "z", "o", "t", "i", "k", "a">>
T_CATEGORY_TAKEN == <<"R", "o", "z", "y", " ">>
CategoryTexts == {T_CATEGORY, T_CATEGORY_TAKEN}

\* admin.py: a text in AdminCategoryStates.waiting_for_name
admin_category_name(u, t) ==
    /\ Route(fsm[u], Text(t)) = "admin_category_name"
    /\ db' = add_category(db, text(strip(t))).db
    /\ fsm' = Set(fsm, u, S_NONE)
    /\ data' = Set(data, u, EmptyData)
    /\ kb' = Set(kb, u, NoMarkup)
    /\ out' = Answer(u, "")
    /\ UNCHANGED pass /\ Frame

Categories(u) ==
    \/ admin_categories(u)
    \/ admin_add_category(u)
    \/ \E t \in CategoryTexts : admin_category_name(u, t)

\* One passage of the add-product flow, and its ways out
Products(u) ==
    \/ admin_add_product_start(u)
    \/ \E f \in PhotoIds : admin_add_photo(u, f)
    \/ admin_add_name(u, T_NAME)
    \/ admin_add_category_selected(u, 1)
    \/ admin_add_price(u, T_PRICE)
    \/ admin_add_description(u, T_LONG)
    \/ admin_save_product(u)
    \/ admin_cancel_add(u)

NextFlows ==
    \E u \in Users :
        \/ Products(u)
        \/ Categories(u)
        \/ order_start(u, 1, 1, 1)
        \/ cancel_order(u)
        \/ cmd_start(u)

SpecFlows == Init /\ [][NextFlows]_vars

AddProductStates == {A_PHOTO, A_NAME, A_CATEGORY, A_PRICE, A_DESCRIPTION, A_CONFIRM}
CategoryStates == {C_ACTION, C_NAME}

\* C38: the conversation state of an identity outside admin_ids is never a
\* state of the add-product or category flows, and every step that inserts a
\* product or a category is the handling of an administrator's event.
C38_FlowsOfAdminsOnly ==
    /\ [](\A u \in NonAdmins : fsm[u] \notin AddProductStates \cup CategoryStates)
    /\ [][(DOMAIN db'.products # DOMAIN db.products
             \/ DOMAIN db'.categories # DOMAIN db.categories) => is_admin(out'.to)]_vars

\* The administrator has added a category and a product and is in a flow
\* again, and the other identity has just been refused
C38_Witness ==
    /\ DOMAIN db.categories # DOMAIN InitialDb.categories
    /\ DOMAIN db.products # DOMAIN InitialDb.products
    /\ \E a \in Users \ NonAdmins : fsm[a] \in AddProductStates \cup CategoryStates
    /\ \E u \in NonAdmins : out = Answer(u, NOTICE_RIGHTS)

(***************************************************************************)
(* Orders of products that are no longer active (SpecRepeat)               *)
(***************************************************************************)
\* C39: a step of order_start opens the dialogue only for a product that is
\* active in that step, and the Confirm of a dialogue opened by order_start
\* adds an order only for a product that is active in that step.
C39_ActiveProductsOnly ==
    [][\A u \in Shoppers :
          /\ (order_start(u, 1, 1, 1) /\ fsm'[u] = S_DATE) => db.products[1].is_active
          /\ \A o \in NewOrders :
                (db'.orders[o].user_id = u /\ Has(pass[u], "seed")
                    /\ pass[u].seed = "order_start") =>
                    db.products[db'.orders[o].product_id].is_active]_vars

(***************************************************************************)
(* SpecLock: create_schema seeds the categories, then the callers of       *)
(* SpecDb run their writes; every task that can run is run in the end and  *)
(* asyncio.Lock wakes its waiters in the order they came                   *)
(***************************************************************************)
Startup == NCallers + 1         \* the task of main(), which calls create_schema

LockUsers == Callers \cup {Startup}

\* create_schema calls add_category(defaults[i])
Seeding(i) ==
    [pc |-> "call", op |-> [kind |-> "add_category", name |-> DefaultCategories[i]],
     lastrowid |-> 0, raised |-> FALSE, seed |-> i]

InitLock ==
    /\ now = [day |-> 0, hour |-> 10]
    /\ db \in {EmptyDb, FreshDb}
    /\ durable = db
    /\ lock = 0
    /\ task \in [LockUsers ->
                   UNION {{[pc |-> "call", op |-> o, lastrowid |-> 0, raised |-> FALSE] :
                             o \in WriteOps(c)} : c \in Callers}
                   \cup {[pc |-> "schema"]}]
    /\ task[Startup].pc = "schema"
    /\ \A c \in Callers : task[c].pc = "call" /\ task[c].op \in WriteOps(c)
    /\ fsm = [u \in Users |-> S_NONE]
    /\ data = [u \in Users |-> EmptyData]
    /\ kb = [u \in Users |-> NoMarkup]
    /\ out = Unhandled
    /\ pass = [u \in Users |-> EmptyData]
    /\ notify = <<>>
    /\ view = <<>>

\* create_schema: executescript and commit outside the lock, then
\* `if not await self.get_categories()`
schema_tables ==
    /\ task[Startup].pc = "schema"
    /\ task' = [task EXCEPT ![Startup] = IF DOMAIN db.categories = {} THEN Seeding(1)
                                         ELSE [pc |-> "ready"]]
    /\ UNCHANGED <<db, durable, lock>> /\ Chat

\* create_schema: add_category has returned; the next turn of the loop, or
\* the return to main() after the last
schema_seeded ==
    /\ task[Startup].pc = "done"
    /\ task' = [task EXCEPT ![Startup] = IF task[Startup].seed < Len(DefaultCategories)
                                         THEN Seeding(task[Startup].seed + 1)
                                         ELSE [pc |-> "ready"]]
    /\ UNCHANGED <<db, durable, lock>> /\ Chat

\* main(): the handlers run after create_schema has returned
Started(c) == c = Startup \/ task[Startup].pc = "ready"

NextLock ==
    \/ schema_tables
    \/ schema_seeded
    \/ \E c \in LockUsers : Started(c) /\ acquire(c)
    \/ \E c \in LockUsers : execute(c)
    \/ \E c \in LockUsers : commit(c)
    \/ \E c \in LockUsers : release(c)

SpecLock ==
    /\ InitLock
    /\ [][NextLock]_vars
    /\ WF_vars(schema_tables \/ schema_seeded)
    /\ \A c \in LockUsers : /\ SF_vars(Started(c) /\ acquire(c))
                            /\ WF_vars(execute(c) \/ commit(c) \/ release(c))

InBlock == {"locked", "executed", "committed"}

\* C40: the lock is held by a task only inside its `async with` block,
\* whether its statement raised or not, and is taken only when nobody holds
\* it; every write that waits is carried out in the end, create_schema
\* returns, and in the end every task has returned with the lock free.
C40_LockReleased ==
    /\ [](\A c \in LockUsers : lock = c <=> task[c].pc \in InBlock)
    /\ [][\A c \in LockUsers : task'[c].pc = "locked" /\ task[c].pc # "locked" => lock = 0]_vars
    /\ \A c \in LockUsers : (task[c].pc = "call") ~> (task[c].pc = "done")
    /\ <>[](lock = 0 /\ task[Startup].pc = "ready" /\ \A c \in Callers : task[c].pc = "done")

\* create_schema has seeded the categories, and behind it one write has
\* raised and another has been committed; the lock is free
C40_Witness ==
    /\ lock = 0
    /\ task[Startup].pc = "ready"
    /\ Cardinality(DOMAIN db.categories) >= Len(DefaultCategories)
    /\ \A c \in Callers : task[c].pc = "done"
    /\ \E c1, c2 \in Callers : task[c1].raised /\ ~task[c2].raised /\ task[c2].lastrowid > 0

=============================================================================
